---- MODULE Spec2Model ----
(***************************************************************************)
(* Decision Engine of fasal-setu-ai (py/decision_engine): the orchestrator *)
(* process_act_intent, the fact / provenance / confidence helpers and the  *)
(* rule handlers, as state machines.                                       *)
(*                                                                         *)
(* Numbers.  Python floats are modelled by exact integers on fixed scales: *)
(*   - temperatures and breaches in tenths of a degree Celsius,            *)
(*   - severities on the scale SevScale (70000 = 1.0), on which every      *)
(*     branch of _severity_from_difference is an integer for a breach in   *)
(*     tenths of a degree,                                                 *)
(*   - scores and confidences on the scale One (10000 = 1.0).              *)
(*                                                                         *)
(* Python values.  A dict is a record; a key whose value is None is listed *)
(* in the record's field "nulls"; a value that is not a dict is a record   *)
(* with the field "py" naming its Python type.                             *)
(***************************************************************************)
EXTENDS Integers, Sequences, FiniteSets, TLC

VARIABLES
    pc,             \* position inside the running function
    fn_in,          \* arguments of a helper or handler called on its own
    fn_out,         \* its return value
    payload,        \* process_act_intent: the raw_payload argument as it was passed
    raw_payload,    \* the caller's payload object as it is now
    act,            \* the validated ActIntentModel
    facts,          \* the facts map given to the handler
    fact_prov,      \* extract_provenance_from_facts(facts)
    handler_result, \* the handler's result after the setdefault calls
    merged_prov,    \* merge_provenance(...) after prioritize_provenance
    response        \* the value process_act_intent returns

fn_vars == <<fn_in, fn_out>>
orch_vars == <<payload, raw_payload, act, facts, fact_prov, handler_result, merged_prov,
               response>>
vars == <<pc, fn_in, fn_out, payload, raw_payload, act, facts, fact_prov, handler_result,
          merged_prov, response>>

(***************************************************************************)
(* Python values                                                           *)
(***************************************************************************)

\* None where a dict, a list or any object is expected
NoValue == [py |-> "None"]
\* None where a string is expected
NONE == "<None>"

\* 1.0 on the scale of scores and confidences
One == 10000

\* the values drawn for a float a handler clamps to [0, 1] or rounds from one
ConfLevels == {0, 7500, One}

Min(a, b) == IF a <= b THEN a ELSE b
Max(a, b) == IF a >= b THEN a ELSE b

\* isinstance(v, dict)
IsDict(v) == "py" \notin DOMAIN v
\* the keys of a dict, those whose value is None included
KeysOf(d) == (DOMAIN d \ {"nulls"}) \cup (IF "nulls" \in DOMAIN d THEN d.nulls ELSE {})
\* k in d
HasKey(d, k) == IsDict(d) /\ k \in KeysOf(d)
\* d.get(k) is not None
Has(d, k) == IsDict(d) /\ k # "nulls" /\ k \in DOMAIN d
\* bool(v) of a dict, a list or None
Truthy(v) ==
    IF IsDict(v) THEN KeysOf(v) # {}
    ELSE IF v.py = "list" THEN Len(v.elems) > 0
    ELSE v.py \notin {"None"}
\* d.get(k) of a string-valued key
GetStr(d, k) == IF Has(d, k) THEN d[k] ELSE NONE
\* bool(s) of a string or None
StrTruthy(s) == s # NONE /\ s # ""
\* a or b, of strings
StrOr(a, b) == IF StrTruthy(a) THEN a ELSE b

\* d.get(k) of a number-valued key: <<>> is None
GetNum(d, k) == IF Has(d, k) THEN <<d[k]>> ELSE <<>>
\* a or b, of optional numbers: 0 is falsy
NumOr(a, b) == IF a # <<>> /\ a[1] # 0 THEN a ELSE b
\* round(a / b) for b > 0
RoundDiv(a, b) == (2 * a + b) \div (2 * b)

\* a sequence of sequences, concatenated
RECURSIVE Flatten(_)
Flatten(ss) == IF ss = <<>> THEN <<>> ELSE Head(ss) \o Flatten(Tail(ss))

Range(s) == {s[i] : i \in DOMAIN s}

\* process_act_intent is not running
OrchIdle ==
    /\ payload = NoValue /\ raw_payload = NoValue /\ act = NoValue
    /\ facts = <<>> /\ fact_prov = <<>>
    /\ handler_result = NoValue /\ merged_prov = <<>> /\ response = NoValue

(***************************************************************************)
(* facts: an insertion-ordered dict tool name -> tool output, as the       *)
(* sequence of its items                                                   *)
(***************************************************************************)
FactKeys(fm) == {fm[i].tool : i \in DOMAIN fm}
FactsHas(fm, k) == k \in FactKeys(fm)
\* fm.get(k)
FactsGet(fm, k) ==
    IF FactsHas(fm, k)
    THEN fm[CHOOSE i \in DOMAIN fm : fm[i].tool = k].out
    ELSE NoValue
\* fm[k] = v: a key keeps its place, a new key goes last
FactsSet(fm, k, v) ==
    IF FactsHas(fm, k)
    THEN [i \in DOMAIN fm |-> IF fm[i].tool = k THEN [tool |-> k, out |-> v] ELSE fm[i]]
    ELSE Append(fm, [tool |-> k, out |-> v])

\* the elements of s at the indices I, in their order in s
SubSeqAt(s, I) ==
    LET n == Cardinality(I)
        at(k) == CHOOSE i \in I : Cardinality({j \in I : j < i}) = k - 1
    IN  [k \in 1 .. n |-> s[at(k)]]

\* s without every element whose key an earlier element has (the seen-set
\* loops); keys[i] is the key of s[i]
DedupeFirst(s, keys) ==
    SubSeqAt(s, {i \in DOMAIN s : \A j \in 1 .. (i - 1) : keys[j] # keys[i]})

\* sorted(s, key=lambda t: (-weight, index)): a stable sort, heaviest first;
\* w[i] is the weight of s[i]
SortByWeightDesc(s, w) ==
    LET before(i) == {j \in DOMAIN s : w[j] > w[i] \/ (w[j] = w[i] /\ j < i)}
        at(k) == CHOOSE i \in DOMAIN s : Cardinality(before(i)) = k - 1
    IN  [k \in DOMAIN s |-> s[at(k)]]

(***************************************************************************)
(* utils/helpers.py, utils/provenance.py: provenance                       *)
(***************************************************************************)

\* SOURCE_TYPE_WEIGHTS, in hundredths
SOURCE_TYPE_WEIGHTS ==
    [government |-> 100, research_institute |-> 95, state_agri_university |-> 92,
     market_portal |-> 90, seed_catalog |-> 80, dataset_portal |-> 78,
     vendor |-> 60, news_blog |-> 35, unknown |-> 50]

ProvEntry(sid, st, tool) == [source_id |-> sid, source_type |-> st, tool |-> tool]

\* the list-valued keys extract_provenance_from_facts scans, in its order
ProvListKeys == <<"results", "varieties", "matched", "items", "series">>

\* the entries one (tool, out) item of facts gives to add_prov, in order
ProvOfTool(tool, out) ==
    IF ~IsDict(out) THEN <<>>
    ELSE <<ProvEntry(StrOr(GetStr(out, "source_id"), GetStr(out, "source")),
                     StrOr(GetStr(out, "source_type"), GetStr(out, "providere")),
                     tool)>>
         \o Flatten([k \in DOMAIN ProvListKeys |->
                IF Has(out, ProvListKeys[k])
                THEN LET ds == SelectSeq(out[ProvListKeys[k]], IsDict)
                     IN  [i \in DOMAIN ds |->
                            ProvEntry(StrOr(StrOr(GetStr(ds[i], "source_id"),
                                                  GetStr(ds[i], "source")), NONE),
                                      StrOr(StrOr(GetStr(ds[i], "source_type"),
                                                  GetStr(ds[i], "source_type")), NONE),
                                      tool \o "." \o ProvListKeys[k])]
                ELSE <<>>])

\* add_prov's key: f"{tool_name}||{source_id}||{source_type}"
ProvKeyToolIdType(e) == <<e.tool, e.source_id, e.source_type>>

\* extract_provenance_from_facts(facts)
extract_provenance_from_facts(fm) ==
    LET all == Flatten([i \in DOMAIN fm |-> ProvOfTool(fm[i].tool, fm[i].out)])
    IN  DedupeFirst(all, [i \in DOMAIN all |-> ProvKeyToolIdType(all[i])])

\* the weight with the table's order of government and vendor exchanged
ProvWeightVendorFirst(p) ==
    LET stype == StrOr(p.source_type, "unknown")
    IN  IF stype = "vendor" THEN SOURCE_TYPE_WEIGHTS["government"]
        ELSE IF stype = "government" THEN SOURCE_TYPE_WEIGHTS["vendor"]
        ELSE IF stype \in DOMAIN SOURCE_TYPE_WEIGHTS
        THEN SOURCE_TYPE_WEIGHTS[stype]
        ELSE SOURCE_TYPE_WEIGHTS["unknown"]

\* the weight prioritize_provenance gives an entry
ProvWeight(p) ==
    LET stype == StrOr(p.source_type, "unknown")
    IN  IF stype \in DOMAIN SOURCE_TYPE_WEIGHTS
        THEN SOURCE_TYPE_WEIGHTS[stype]
        ELSE SOURCE_TYPE_WEIGHTS["unknown"]

\* prioritize_provenance's key: f"{sid}||{st}"
ProvKeyIdType(e) == <<e.source_id, e.source_type>>

\* prioritize_provenance(prov_entries), of dict entries
prioritize_provenance(prov_entries) ==
    LET sorted == SortByWeightDesc(prov_entries,
                                   [i \in DOMAIN prov_entries |-> ProvWeight(prov_entries[i])])
    IN  DedupeFirst(sorted, [i \in DOMAIN sorted |-> ProvKeyIdType(sorted[i])])

\* merge_provenance's final key: sid or '', source_type or '', tool or ''
ProvKeyFinal(e) ==
    <<StrOr(e.source_id, ""), StrOr(e.source_type, ""), StrOr(e.tool, "")>>

\* combined_entries of merge_provenance once every entry has a source_type:
\* the handler's entries, then the extracted ones, a missing type looked up
\* by source_id among the extracted entries, else "unknown"; handler_prov
\* None is <<>>
combined_entries(handler_prov, fm) ==
    LET fromHandler == [i \in DOMAIN handler_prov |->
            LET hp == handler_prov[i]
            IN  IF IsDict(hp)
                THEN ProvEntry(GetStr(hp, "source_id"), GetStr(hp, "source_type"),
                               IF HasKey(hp, "tool") THEN GetStr(hp, "tool") ELSE "handler")
                ELSE ProvEntry(hp.s, NONE, "handler")]
        extracted == extract_provenance_from_facts(fm)
        combined == fromHandler \o extracted
        known(sid) == {i \in DOMAIN extracted :
                         /\ extracted[i].source_id = sid
                         /\ StrTruthy(extracted[i].source_type)}
        lookup(sid) == extracted[CHOOSE i \in known(sid) : \A j \in known(sid) : i <= j].source_type
    IN  [i \in DOMAIN combined |->
            LET e == combined[i]
            IN  IF StrTruthy(e.source_type) THEN e
                ELSE IF StrTruthy(e.source_id) /\ known(e.source_id) # {}
                THEN [e EXCEPT !.source_type = lookup(e.source_id)]
                ELSE [e EXCEPT !.source_type = "unknown"]]

\* merge_provenance(handler_prov, fm)
merge_provenance(handler_prov, fm) ==
    LET prioritized == prioritize_provenance(combined_entries(handler_prov, fm))
        ordered == [i \in DOMAIN prioritized |->
            LET p == prioritized[i]
            IN  IF StrTruthy(p.source_id) THEN p
                ELSE ProvEntry(NONE, StrOr(p.source_type, "unknown"), p.tool)]
    IN  DedupeFirst(ordered, [i \in DOMAIN ordered |-> ProvKeyFinal(ordered[i])])

\* tool outputs drawn for the provenance helpers: tagged and untagged, with a
\* "source" alias, with a None type, a news blog, with nested items, and a
\* non-dict
ProvOutputs ==
    { [source_id |-> "agmarknet", source_type |-> "government"],
      [source_id |-> "agro_shop", source_type |-> "vendor"],
      [source |-> "agro_shop"],
      [source_id |-> "agmarknet", nulls |-> {"source_type"}],
      [source_type |-> "vendor"],
      [source_id |-> "kisan_blog", source_type |-> "news_blog"],
      [items |-> << [source_id |-> "agro_shop", source_type |-> "vendor"],
                    [source_id |-> "imd", source_type |-> "government"] >>],
      NoValue }

ProvTools == {"prices_fetch", "pesticide_lookup", "weather_outlook"}

\* largest number of facts drawn
MaxProvFacts == 2

\* the facts maps of at most MaxProvFacts tools, in every insertion order
ProvFacts ==
    UNION { { fm \in [1 .. n -> [tool : ProvTools, out : ProvOutputs]] :
                \A i, j \in 1 .. n : i # j => fm[i].tool # fm[j].tool }
            : n \in 0 .. Min(MaxProvFacts, Cardinality(ProvTools)) }

\* handler provenance drawn: none, an untyped dict, a bare string, typed dicts
ProvHandlerProvs ==
    { <<>>,
      << [source_id |-> "agro_shop"] >>,
      << [py |-> "str", s |-> "agmarknet"] >>,
      << [source_id |-> "agro_shop", source_type |-> "vendor", tool |-> "prices_fetch"],
         [source_id |-> "icar", source_type |-> "government"] >> }

ProvInit ==
    /\ pc = "merge_provenance"
    /\ fn_in \in [handler_prov : ProvHandlerProvs, facts : ProvFacts]
    /\ fn_out = NoValue
    /\ OrchIdle

MergeProvenanceCall ==
    /\ pc = "merge_provenance"
    /\ fn_out' = merge_provenance(fn_in.handler_prov, fn_in.facts)
    /\ pc' = "done"
    /\ UNCHANGED <<fn_in, orch_vars>>

ProvNext == MergeProvenanceCall

SpecProv == ProvInit /\ [][ProvNext]_vars

\* the entries of a facts map whose top-level tag is the source type st
TaggedFacts(fm, st) ==
    {i \in DOMAIN fm : IsDict(fm[i].out) /\ GetStr(fm[i].out, "source_type") = st}

\* C10: in the list merge_provenance returns, every entry of source type
\* government comes before every entry of source type vendor, whatever the
\* insertion order of the facts; and a fact tagged government or vendor is
\* represented in the list by an entry of its source and type.
C10_GovernmentBeforeVendor ==
    pc = "done" =>
        /\ \A i, j \in DOMAIN fn_out :
               fn_out[i].source_type = "government" /\ fn_out[j].source_type = "vendor"
                   => i < j
        /\ \A st \in {"government", "vendor"} : \A k \in TaggedFacts(fn_in.facts, st) :
               \E i \in DOMAIN fn_out :
                   /\ fn_out[i].source_type = st
                   /\ fn_out[i].source_id = GetStr(fn_in.facts[k].out, "source_id")

\* the vendor fact was inserted first and the government fact second, and the
\* merged list has the government entry first
C10_Witness ==
    /\ pc = "done"
    /\ fn_in.handler_prov = <<>>
    /\ Len(fn_in.facts) = 2
    /\ GetStr(fn_in.facts[1].out, "source_type") = "vendor"
    /\ GetStr(fn_in.facts[2].out, "source_type") = "government"
    /\ Len(fn_out) = 2
    /\ fn_out[1].source_type = "government" /\ fn_out[1].tool = fn_in.facts[2].tool
    /\ fn_out[2].source_type = "vendor" /\ fn_out[2].tool = fn_in.facts[1].tool

\* the (source_id, source_type, tool) triples of the entries merge_provenance
\* merges, and of the entries it returns
C18_Triples(entries) ==
    {<<entries[i].source_id, entries[i].source_type, entries[i].tool>> : i \in DOMAIN entries}

\* C18 (as stated): the list merge_provenance returns holds exactly one
\* entry for each distinct (source_id, source_type, tool) triple among the
\* handler-reported and extracted entries: no triple appears twice, and
\* entries that share source_id and source_type but come from different
\* tools are all kept.
C18_OnePerTriple ==
    pc = "done"
    => /\ Cardinality(C18_Triples(fn_out)) = Len(fn_out)
       /\ C18_Triples(fn_out) = C18_Triples(combined_entries(fn_in.handler_prov, fn_in.facts))

\* what does hold: no triple appears twice, every entry returned is one of
\* the merged entries, and the list holds exactly one entry for each
\* distinct (source_id, source_type) pair among them, whatever their tools.
C18_OnePerIdAndType ==
    LET merged == combined_entries(fn_in.handler_prov, fn_in.facts)
        pairs(entries) == {ProvKeyIdType(entries[i]) : i \in DOMAIN entries}
    IN  pc = "done"
        => /\ Cardinality(C18_Triples(fn_out)) = Len(fn_out)
           /\ C18_Triples(fn_out) \subseteq C18_Triples(merged)
           /\ pairs(fn_out) = pairs(merged)
           /\ Cardinality(pairs(fn_out)) = Len(fn_out)

\* two tools gave the same source_id and source_type, and the list holds
\* one entry for the two
C18_Witness ==
    /\ pc = "done" /\ fn_in.handler_prov = <<>>
    /\ Len(fn_in.facts) = 2
    /\ fn_in.facts[1].out = [source_id |-> "agro_shop", source_type |-> "vendor"]
    /\ fn_in.facts[2].out = fn_in.facts[1].out
    /\ fn_out = <<ProvEntry("agro_shop", "vendor", fn_in.facts[1].tool)>>

\* the place of a source type in the order government, research_institute,
\* state_agri_university, market_portal, seed_catalog, dataset_portal,
\* vendor, news_blog, unknown; an absent type counts as unknown
C19_Rank(e) ==
    LET order == <<"government", "research_institute", "state_agri_university",
                   "market_portal", "seed_catalog", "dataset_portal", "vendor",
                   "news_blog", "unknown">>
        stype == StrOr(e.source_type, "unknown")
    IN  IF \E k \in DOMAIN order : order[k] = stype
        THEN CHOOSE k \in DOMAIN order : order[k] = stype
        ELSE Len(order)

\* where an entry of the returned list was first seen among the merged ones
C19_FirstSeen(e) ==
    LET merged == combined_entries(fn_in.handler_prov, fn_in.facts)
    IN  CHOOSE k \in DOMAIN merged :
            /\ merged[k] = e
            /\ \A j \in DOMAIN merged : merged[j] = e => k <= j

\* C19 (as stated): the entries merge_provenance returns are ordered by
\* source type in the order government, ..., vendor, news_blog, unknown (a
\* news_blog entry precedes one of unknown or absent type), and entries of
\* the same source type keep their first-seen order.
C19_OrderedBySourceType ==
    pc = "done"
    => \A i, j \in DOMAIN fn_out :
          i < j => \/ C19_Rank(fn_out[i]) < C19_Rank(fn_out[j])
                   \/ /\ C19_Rank(fn_out[i]) = C19_Rank(fn_out[j])
                      /\ C19_FirstSeen(fn_out[i]) < C19_FirstSeen(fn_out[j])

\* what does hold: the entries are ordered by the weight SOURCE_TYPE_WEIGHTS
\* gives their type, heaviest first, which puts unknown (0.50) before
\* news_blog (0.35); entries of equal weight keep their first-seen order.
C19_OrderedByWeight ==
    pc = "done"
    => \A i, j \in DOMAIN fn_out :
          i < j => \/ ProvWeight(fn_out[i]) > ProvWeight(fn_out[j])
                   \/ /\ ProvWeight(fn_out[i]) = ProvWeight(fn_out[j])
                      /\ C19_FirstSeen(fn_out[i]) < C19_FirstSeen(fn_out[j])

\* a news blog was given first and a source without a type second, and the
\* list has the untyped one, as unknown, before the news blog
C19_Witness ==
    /\ pc = "done" /\ fn_in.handler_prov = <<>>
    /\ Len(fn_in.facts) = 2
    /\ fn_in.facts[1].out = [source_id |-> "kisan_blog", source_type |-> "news_blog"]
    /\ fn_in.facts[2].out = [source |-> "agro_shop"]
    /\ Len(fn_out) = 2
    /\ fn_out[1].source_type = "unknown" /\ fn_out[1].source_id = "agro_shop"
    /\ fn_out[2].source_type = "news_blog"

(***************************************************************************)
(* rules/market_advice.py                                                  *)
(*                                                                         *)
(* Prices are integers in units of 50 Rs per quintal (3300, 3350, 3400 are *)
(* 66, 67, 68): expected_pct_change and cov_prices are ratios of prices    *)
(* and do not depend on the unit.  A date is a day number, None is 0.  An  *)
(* optional number is <<>> (None) or <<x>>.                                *)
(***************************************************************************)

TREND_WINDOW_DAYS == 14
MIN_PRICE_POINTS == 3
\* HOLD_PCT_THRESHOLD = 0.03 and VOLATILITY_THRESHOLD = 0.08, in hundredths
HOLD_PCT_THRESHOLD == 3
VOLATILITY_THRESHOLD == 8

RECURSIVE SumSeq(_)
SumSeq(s) == IF s = <<>> THEN 0 ELSE Head(s) + SumSeq(Tail(s))

\* a record of price_history the extraction keeps: a dict whose price is
\* neither None nor 0 (price_raw is an "or" chain, so 0 falls through to None)
UsablePriceRecord(rec) == IsDict(rec) /\ Has(rec, "price") /\ rec.price # 0

\* _extract_price_history(prices_out): dated records ascending by date (a
\* stable sort), then the undated ones in their given order
extract_price_history(prices_out) ==
    IF ~IsDict(prices_out) \/ ~Has(prices_out, "price_history") THEN <<>>
    ELSE LET records == SelectSeq(prices_out.price_history, UsablePriceRecord)
             IsDated(rec) == Has(rec, "date") /\ rec.date # 0
             IsUndated(rec) == ~IsDated(rec)
             dated == SelectSeq(records, IsDated)
             undated == SelectSeq(records, IsUndated)
             dated_sorted == SortByWeightDesc(dated, [i \in DOMAIN dated |-> 0 - dated[i].date])
             combined == dated_sorted \o undated
         IN  [i \in DOMAIN combined |-> combined[i].price]

\* series[-window:] if len(series) >= window else series[:]
LastWindow(series, window) ==
    IF Len(series) >= window
    THEN IF window <= 0 THEN SubSeq(series, 1 - window, Len(series))
         ELSE SubSeq(series, Len(series) - window + 1, Len(series))
    ELSE series

\* _compute_trend_and_volatility(series, window): <<>> is None.  With
\* xs = 0..n-1 the returned floats are, exactly,
\*   slope_per_step      = slope_num / slope_den
\*   expected_pct_change = slope_num / (slope_den * last_price)
\*   cov_prices ^ 2      = var_num / sum_y ^ 2
compute_trend_and_volatility(series, window) ==
    IF Len(series) < MIN_PRICE_POINTS THEN <<>>
    ELSE LET ys == LastWindow(series, window)
             n == Len(ys)
             sum_x == SumSeq([i \in 1 .. n |-> i - 1])
             sum_xx == SumSeq([i \in 1 .. n |-> (i - 1) * (i - 1)])
             sum_y == SumSeq(ys)
             sum_xy == SumSeq([i \in 1 .. n |-> (i - 1) * ys[i]])
             sum_yy == SumSeq([i \in 1 .. n |-> ys[i] * ys[i]])
         IN  IF n < MIN_PRICE_POINTS THEN <<>>
             ELSE << [last_price |-> ys[n],
                      slope_num |-> n * sum_xy - sum_x * sum_y,
                      slope_den |-> n * sum_xx - sum_x * sum_x,
                      var_num |-> n * sum_yy - sum_y * sum_y,
                      sum_y |-> sum_y,
                      n_points |-> n] >>

\* facts.get(a) or facts.get(b)
FactsGetOr(fm, a, b) == IF Truthy(FactsGet(fm, a)) THEN FactsGet(fm, a) ELSE FactsGet(fm, b)

\* _extract_storage_cost(storage_out): <<>> is None
extract_storage_cost(storage_out) ==
    IF ~Truthy(storage_out) \/ ~IsDict(storage_out) THEN <<>>
    ELSE IF Has(storage_out, "cost_per_month") THEN <<storage_out.cost_per_month>>
    ELSE <<>>

\* expected_pct >= HOLD_PCT_THRESHOLD, for a positive last price
ExpectedPctAtLeastThreshold(st) ==
    100 * st.slope_num >= HOLD_PCT_THRESHOLD * st.slope_den * st.last_price
\* cov <= VOLATILITY_THRESHOLD, for positive prices
CovAtMostThreshold(st) ==
    10000 * st.var_num <= VOLATILITY_THRESHOLD * VOLATILITY_THRESHOLD * st.sum_y * st.sum_y
\* expected_pct > storage_cost / last_price, for a positive last price
ExpectedPctAboveStorage(st, storage_cost) ==
    st.slope_num > storage_cost * st.slope_den

\* the decision rule of handle with the two thresholds' tests exchanged for
\* "any rise": hold whenever the slope is positive
market_decision_any_rise(st, storage_cost) ==
    IF st.slope_num > 0 THEN "hold" ELSE "sell"

\* the decision rule of handle: "hold" or "sell"
market_decision(st, storage_cost) ==
    IF ExpectedPctAtLeastThreshold(st) /\ CovAtMostThreshold(st) THEN "hold"
    ELSE IF /\ storage_cost # <<>> /\ st.last_price > 0
            /\ ExpectedPctAboveStorage(st, storage_cost[1])
            /\ CovAtMostThreshold(st)
    THEN "hold"
    ELSE "sell"

\* a require_more_info result that names nothing
RequireMoreInfoNamesNothing(notes, missing) ==
    [action |-> "require_more_info", items |-> <<>>, confidence |-> <<0>>,
     notes |-> notes, missing |-> <<>>]

\* the require_more_info result the handlers return
RequireMoreInfo(notes, missing) ==
    [action |-> "require_more_info", items |-> <<>>, confidence |-> <<0>>,
     notes |-> notes, missing |-> missing]

\* a handler's outcome when an exception leaves handle
Raised(exc) == [py |-> "raise", exc |-> exc]

\* str.lower() of the status strings drawn
Lower(s) ==
    CASE s = "Active" -> "active"
      [] s = "ACTIVE" -> "active"
      [] OTHER -> s

\* the facilities _handle_insufficient_price_data reads in a dict
\* storage_out: those under data if there are any, else the top-level ones
StorageFacilities(storage_out) ==
    LET nested == IF Has(storage_out, "data") /\ Has(storage_out.data, "facilities")
                  THEN storage_out.data.facilities ELSE <<>>
    IN  IF nested # <<>> THEN nested
        ELSE IF Has(storage_out, "facilities") THEN storage_out.facilities
        ELSE <<>>

\* the calls at which the storage check raises AttributeError: data is
\* present and None, or a facility's status is present and None
StorageCheckRaises(storage_out) ==
    /\ Truthy(storage_out) /\ IsDict(storage_out)
    /\ \/ (HasKey(storage_out, "data") /\ ~Has(storage_out, "data"))
       \/ \E i \in DOMAIN StorageFacilities(storage_out) :
             LET f == StorageFacilities(storage_out)[i]
             IN  HasKey(f, "status") /\ ~Has(f, "status")

\* the result of _handle_insufficient_price_data for a storage_available
BasicRecommendation(series, storage_available) ==
    LET confidence == IF storage_available THEN 4000 ELSE 3000
    IN  [action |-> "basic_market_recommendation",
         items |-> << [name |-> IF storage_available THEN "hold_short_term" ELSE "sell_now",
                       score |-> <<confidence>>,
                       current_price |-> series[Len(series)],
                       price_points_available |-> Len(series),
                       meta |-> [price_history_insufficient |-> TRUE,
                                 storage_available |-> storage_available,
                                 current_price |-> series[Len(series)]]] >>,
         handler_confidence |-> <<confidence>>,
         nulls |-> {"confidence"},
         notes |-> "Basic recommendation"]

\* _handle_insufficient_price_data with the status compared as it is
\* written, without lower()
handle_insufficient_case_sensitive(series, fm) ==
    LET storage_out == FactsGetOr(fm, "storage_find", "storage")
        IsActive(f) == GetStr(f, "status") = "active"
    IN  IF StorageCheckRaises(storage_out) THEN Raised("AttributeError")
        ELSE BasicRecommendation(series,
                 /\ Truthy(storage_out) /\ IsDict(storage_out)
                 /\ SelectSeq(StorageFacilities(storage_out), IsActive) # <<>>)

\* _handle_insufficient_price_data(series, facts, intent), of a non-empty series
handle_insufficient_price_data(series, fm) ==
    LET storage_out == FactsGetOr(fm, "storage_find", "storage")
        IsActive(f) == Lower(GetStr(f, "status")) = "active"
    IN  IF StorageCheckRaises(storage_out) THEN Raised("AttributeError")
        ELSE BasicRecommendation(series,
                 /\ Truthy(storage_out) /\ IsDict(storage_out)
                 /\ SelectSeq(StorageFacilities(storage_out), IsActive) # <<>>)

\* market_advice.handle(intent, facts).  conf is the confidence of lines
\* 396-433, a float the clamp max(0.0, min(1.0, .)) leaves in [0, 1].
market_handle(intent, fm, conf) ==
    LET prices_out == FactsGetOr(fm, "prices_fetch", "prices")
        series == extract_price_history(prices_out)
        window == IF intent.trend_window_days # <<>> THEN intent.trend_window_days[1]
                  ELSE TREND_WINDOW_DAYS
        stats == compute_trend_and_volatility(series, window)
        storage_cost == extract_storage_cost(FactsGetOr(fm, "storage_find", "storage"))
    IN  IF fm = <<>> THEN RequireMoreInfo("No facts provided", <<"prices_fetch">>)
        ELSE IF ~Truthy(prices_out)
        THEN RequireMoreInfo("Missing required tool output 'prices_fetch'", <<"prices_fetch">>)
        ELSE IF series = <<>>
        THEN RequireMoreInfo("No price data found", <<"prices_fetch.price_history">>)
        ELSE IF Len(series) < MIN_PRICE_POINTS
        THEN handle_insufficient_price_data(series, fm)
        ELSE IF stats = <<>>
        THEN RequireMoreInfo("Unable to compute trend/volatility from price history", <<>>)
        ELSE [action |-> "sell_or_hold_decision",
              items |-> << [name |-> market_decision(stats[1], storage_cost),
                            score |-> <<conf>>,
                            meta |-> stats[1]] >>,
              handler_confidence |-> <<conf>>,
              nulls |-> {"confidence"},
              notes |-> "Decision"]

\* prices drawn, in units of 50 Rs: 0 (a record the extraction skips), 2500,
\* 3000, 3300, 3350, 3400
MarketPrices == {0, 50, 60, 66, 67, 68}

\* largest number of price_history records drawn
MaxPricePoints == 4

\* how the records are dated: consecutive days in the given order, in the
\* reverse order, or not at all
DateOrders == {"ascending", "descending", "undated"}

PriceRecords(ps, order) ==
    [i \in DOMAIN ps |->
        IF order = "undated" THEN [price |-> ps[i]]
        ELSE [date |-> IF order = "ascending" THEN i ELSE Len(ps) + 1 - i,
              price |-> ps[i]]]

\* storage_find outputs drawn: none, and one with a monthly cost of 50 Rs
MarketStorage == { <<>>, << [tool |-> "storage_find", out |-> [cost_per_month |-> 1]] >> }

\* trend_window_days of the intent: absent, 2 and 3
MarketWindows == { <<>>, <<2>>, <<3>> }

MarketInput(ps, order, storage, window) ==
    [prices |-> ps, order |-> order,
     intent |-> [trend_window_days |-> window],
     facts |-> << [tool |-> "prices_fetch",
                   out |-> [price_history |-> PriceRecords(ps, order),
                            source_id |-> "agmarknet"]] >> \o storage]

MarketInit ==
    /\ pc = "market_handle"
    /\ fn_in \in { MarketInput(ps, order, storage, window) :
                     ps \in UNION { [1 .. n -> MarketPrices] : n \in 0 .. MaxPricePoints },
                     order \in DateOrders, storage \in MarketStorage,
                     window \in MarketWindows }
    /\ fn_out = NoValue
    /\ OrchIdle

MarketHandleCall ==
    /\ pc = "market_handle"
    /\ \E conf \in ConfLevels : fn_out' = market_handle(fn_in.intent, fn_in.facts, conf)
    /\ pc' = "done"
    /\ UNCHANGED <<fn_in, orch_vars>>

MarketNext == MarketHandleCall

SpecMarket == MarketInit /\ [][MarketNext]_vars

\* the usable price points of the input in chronological order
C7_Series ==
    LET ps == fn_in.prices
        chrono == IF fn_in.order = "descending"
                  THEN [i \in DOMAIN ps |-> ps[Len(ps) + 1 - i]] ELSE ps
        NonZero(x) == x # 0
    IN  SelectSeq(chrono, NonZero)

\* the case C7 is about: at least 3 usable points, no storage cost data, the
\* default trend window
C7_Case ==
    /\ pc = "done"
    /\ Len(C7_Series) >= MIN_PRICE_POINTS
    /\ ~FactsHas(fn_in.facts, "storage_find")
    /\ fn_in.intent.trend_window_days = <<>>

C7_Recommends(name) ==
    /\ fn_out.action = "sell_or_hold_decision"
    /\ Len(fn_out.items) = 1
    /\ fn_out.items[1].name = name

C7_NonIncreasing ==
    \A i \in 1 .. (Len(C7_Series) - 1) : C7_Series[i] >= C7_Series[i + 1]

\* C7 (as stated): the rising series 3300, 3350, 3400 yields hold, and every
\* non-increasing series yields sell.
C7_RisingExampleHolds ==
    C7_Case =>
        /\ (C7_Series = <<66, 67, 68>> => C7_Recommends("hold"))
        /\ (C7_NonIncreasing => C7_Recommends("sell"))

\* C7 (amended): with at least 3 usable points, no storage cost data and the
\* default window, every non-increasing series of positive prices yields
\* sell; a rising series yields hold only when the predicted rise is at least
\* 3% and the price volatility at most 0.08: 3000, 3300, 3400 yields hold,
\* while 3300, 3350, 3400 (a predicted rise of 50 on 3400, 1.47%) and the
\* volatile 2500, 3000, 3400 yield sell.  The recommendation is always one of
\* hold and sell.
C7_HoldNeedsThreePercent ==
    C7_Case =>
        /\ (C7_NonIncreasing => C7_Recommends("sell"))
        /\ (C7_Series = <<66, 67, 68>> => C7_Recommends("sell"))
        /\ (C7_Series = <<60, 66, 68>> => C7_Recommends("hold"))
        /\ (C7_Series = <<50, 60, 68>> => C7_Recommends("sell"))
        /\ (C7_Recommends("hold") \/ C7_Recommends("sell"))

\* the series 3300, 3350, 3400 on consecutive days, and the handler's "sell"
C7_Witness ==
    /\ C7_Case
    /\ fn_in.order = "ascending"
    /\ fn_in.prices = <<66, 67, 68>>
    /\ C7_Recommends("sell")

(***************************************************************************)
(* rules/pesticide_advice.py                                               *)
(*                                                                         *)
(* Days are integers.  The intent is the ActIntentModel the orchestrator   *)
(* passes (read with getattr); the payloads drawn carry no crop, no        *)
(* rag_search fact and no per-product provenance.                          *)
(***************************************************************************)

\* _normalize_products(pest_out), of a dict with a "products" list or a dict
\* that is itself one product
normalize_products(pest_out) ==
    IF ~IsDict(pest_out) THEN <<>>
    ELSE IF Has(pest_out, "products") /\ pest_out.products # <<>> THEN pest_out.products
    ELSE IF {"name", "active_ingredient", "target_pests", "crops"} \cap KeysOf(pest_out) # {}
    THEN <<pest_out>>
    ELSE <<>>

\* days_to_harvest as handle reads it (lines 284-299): <<>> is None
pesticide_days_to_harvest(intent, fm) ==
    LET calendar == IF Truthy(FactsGet(fm, "calendar_lookup"))
                    THEN FactsGet(fm, "calendar_lookup") ELSE <<>>
    IN  IF intent.days_to_harvest # <<>> THEN intent.days_to_harvest
        ELSE IF ~IsDict(calendar) THEN <<>>
        ELSE NumOr(GetNum(calendar, "days_to_harvest"), GetNum(calendar, "days_to_maturity"))

\* phi of a product (lines 328-332): the "or" chain drops a PHI of 0
product_phi(prod) == NumOr(GetNum(prod, "phi_days"), <<>>)

\* _matches_pest(product, [user_pest]) for the names drawn
matches_pest(prod, user_pest) ==
    Has(prod, "target_pests") /\ user_pest \in Range(prod.target_pests)

\* the candidate's confidence: _product_confidence(p, signals) with
\*   heuristic = 0.4 pest_match + 0.4 crop_match + 0.2 phi_ok
\*   helper    = compute_confidence(...) = 0.8 heuristic + 0.16
\*   combined  = 0.3 helper + 0.7 heuristic = 0.94 heuristic + 0.048
product_confidence(prod, user_pest, days_to_harvest) ==
    LET phi == product_phi(prod)
        crop_match == One \div 2
        pest_match == IF ~StrTruthy(user_pest) THEN One \div 2
                      ELSE IF matches_pest(prod, user_pest) THEN One
                      ELSE IF Has(prod, "target_pests") /\ prod.target_pests # <<>> THEN 0
                      ELSE One \div 2
        phi_ok == IF phi = <<>> \/ days_to_harvest = <<>> THEN One \div 2
                  ELSE IF phi[1] <= days_to_harvest[1] THEN One ELSE 0
        heuristic == (4 * pest_match + 4 * crop_match + 2 * phi_ok) \div 10
    IN  Max(0, Min(One, (94 * heuristic) \div 100 + 480))

\* the PHI exclusion of lines 439-452
phi_excluded(prod, days_to_harvest) ==
    /\ product_phi(prod) # <<>> /\ days_to_harvest # <<>>
    /\ product_phi(prod)[1] > days_to_harvest[1]

\* pesticide_advice.handle(intent, facts)
pesticide_handle(intent, fm) ==
    LET pesticide_out == FactsGet(fm, "pesticide_lookup")
        user_pest == intent.pest
        days_to_harvest == pesticide_days_to_harvest(intent, fm)
        products == normalize_products(pesticide_out)
        Kept(prod) == ~phi_excluded(prod, days_to_harvest)
        filtered == SelectSeq(products, Kept)
        sorted_cands == SortByWeightDesc(filtered,
            [i \in DOMAIN filtered |-> product_confidence(filtered[i], user_pest, days_to_harvest)])
        top == SubSeq(sorted_cands, 1, Min(5, Len(sorted_cands)))
        items == [i \in DOMAIN top |->
                    [name |-> StrOr(GetStr(top[i], "name"), "unknown_product"),
                     score |-> <<product_confidence(top[i], user_pest, days_to_harvest)>>,
                     meta |-> [phi_days |-> product_phi(top[i])]]]
        overall == RoundDiv(SumSeq([i \in DOMAIN items |-> items[i].score[1]]), Len(items))
    IN  IF fm = <<>> THEN RequireMoreInfo("No facts provided", <<"pesticide_lookup">>)
        ELSE IF ~Truthy(pesticide_out)
        THEN RequireMoreInfo("Missing required tool output 'pesticide_lookup'",
                             <<"pesticide_lookup">>)
        ELSE IF products = <<>>
        THEN RequireMoreInfo("No products found in pesticide_lookup", <<>>)
        ELSE IF filtered = <<>>
        THEN RequireMoreInfo("All available products incompatible with PHI", <<>>)
        ELSE [action |-> "pesticide_safe_recommendation",
              items |-> items,
              handler_confidence |-> <<overall>>,
              nulls |-> {"confidence"},
              notes |-> "Recommended products"]

\* products drawn at position n of the list: with and without a PHI (0, 3 or
\* 7 days), with and without target pests
PesticideProducts(n) ==
    LET nm == {<<"product_a", "product_b", "product_c", "product_d">>[n]}
        phis == {0, 3, 7}
        pests == {<<"aphid">>, <<"borer">>}
    IN  [name : nm] \cup [name : nm, phi_days : phis]
        \cup [name : nm, target_pests : pests]
        \cup [name : nm, phi_days : phis, target_pests : pests]

\* largest number of products drawn
MaxProducts == 2

PesticideProductLists ==
    UNION { { ps \in [1 .. n -> UNION {PesticideProducts(k) : k \in 1 .. n}] :
                \A i \in 1 .. n : ps[i] \in PesticideProducts(i) }
            : n \in 0 .. Min(MaxProducts, 4) }

\* calendar_lookup facts drawn: none, harvest today, harvest in 5 days, a
\* calendar that gives days_to_maturity, one that gives neither
PesticideCalendars ==
    { <<>>,
      << [tool |-> "calendar_lookup", out |-> [days_to_harvest |-> 0]] >>,
      << [tool |-> "calendar_lookup", out |-> [days_to_harvest |-> 5]] >>,
      << [tool |-> "calendar_lookup", out |-> [days_to_maturity |-> 5]] >>,
      << [tool |-> "calendar_lookup", out |-> [state |-> "Punjab"]] >> }

PesticideInit ==
    /\ pc = "pesticide_handle"
    /\ fn_in \in { [intent |-> [days_to_harvest |-> d, pest |-> pest],
                    facts |-> << [tool |-> "pesticide_lookup", out |-> [products |-> ps]] >> \o cal]
                   : d \in { <<>>, <<0>>, <<5>> }, pest \in {NONE, "aphid"},
                     ps \in PesticideProductLists, cal \in PesticideCalendars }
    /\ fn_out = NoValue
    /\ OrchIdle

PesticideHandleCall ==
    /\ pc = "pesticide_handle"
    /\ fn_out' = pesticide_handle(fn_in.intent, fn_in.facts)
    /\ pc' = "done"
    /\ UNCHANGED <<fn_in, orch_vars>>

PesticideNext == PesticideHandleCall

SpecPesticide == PesticideInit /\ [][PesticideNext]_vars

\* days_to_harvest as the input states it: the intent's, else the
\* calendar's days_to_harvest field; <<>> when neither states it
C6_DaysToHarvest ==
    IF fn_in.intent.days_to_harvest # <<>> THEN fn_in.intent.days_to_harvest
    ELSE GetNum(FactsGet(fn_in.facts, "calendar_lookup"), "days_to_harvest")

C6_Products == FactsGet(fn_in.facts, "pesticide_lookup").products

\* C6: whenever days_to_harvest is known, from the intent or from
\* calendar_lookup, no returned item has meta.phi_days greater than
\* days_to_harvest; and if every candidate product violates its PHI the
\* result is require_more_info with no items.
C6_NoItemExceedsDaysToHarvest ==
    (pc = "done" /\ C6_DaysToHarvest # <<>>) =>
        /\ \A i \in DOMAIN fn_out.items :
               \/ fn_out.items[i].meta.phi_days = <<>>
               \/ fn_out.items[i].meta.phi_days[1] <= C6_DaysToHarvest[1]
        /\ ( /\ C6_Products # <<>>
             /\ \A k \in DOMAIN C6_Products :
                    GetNum(C6_Products[k], "phi_days") # <<>>
                    /\ C6_Products[k].phi_days > C6_DaysToHarvest[1] )
           => (fn_out.action = "require_more_info" /\ fn_out.items = <<>>)

\* the same property where the calendar's days_to_harvest, if it is the
\* source, is not 0: it holds
C6_HoldsUnlessCalendarSaysZero ==
    (fn_in.intent.days_to_harvest # <<>> \/ C6_DaysToHarvest # <<0>>)
        => C6_NoItemExceedsDaysToHarvest

\* calendar_lookup says the harvest is today, and a product with a PHI of 7
\* days is returned
C6_Witness ==
    /\ pc = "done"
    /\ fn_in.intent.days_to_harvest = <<>>
    /\ C6_DaysToHarvest = <<0>>
    /\ fn_out.action = "pesticide_safe_recommendation"
    /\ \E i \in DOMAIN fn_out.items : fn_out.items[i].meta.phi_days = <<7>>

(***************************************************************************)
(* utils/helpers.py: compute_confidence                                    *)
(*                                                                         *)
(* Confidences are integers on the scale One; a quotient is rounded to the *)
(* nearest 1/One, as the handlers' round(x, 4) does with the result.       *)
(***************************************************************************)

\* the signals dict of a caller that names no canonical signal
NoSignals ==
    [handler_confidence |-> <<>>, items_mean_score |-> <<>>,
     facts_mean_confidence |-> <<>>, n_items |-> 0]

\* the per-tool confidences the fallback of compute_confidence finds in facts
ToolConfs(fm) ==
    LET c(f) == NumOr(NumOr(GetNum(f.out, "confidence"), GetNum(f.out, "conf")),
                      GetNum(f.out, "score"))
        WithConf(f) == IsDict(f.out) /\ c(f) # <<>>
        fs == SelectSeq(fm, WithConf)
    IN  [i \in DOMAIN fs |-> c(fs[i])[1]]

\* compute_confidence with the weak signal of the missing-tool branch taken
\* from handler_confidence before items_mean_score
compute_confidence_handler_first(signals, fm, required_tools) ==
    LET handler_conf == signals.handler_confidence
        items_mean == signals.items_mean_score
        facts_mean == signals.facts_mean_confidence
        n_required == Len(required_tools)
        n_missing == Cardinality({i \in DOMAIN required_tools : ~FactsHas(fm, required_tools[i])})
        present == n_required - n_missing
        base == IF handler_conf # <<>> THEN RoundDiv(handler_conf[1] * present, n_required)
                ELSE IF items_mean # <<>> THEN RoundDiv(items_mean[1] * present, n_required)
                ELSE Max(0, RoundDiv((One \div 2) * present, n_required))
        parts == (IF handler_conf # <<>> THEN <<[p |-> handler_conf[1], w |-> 45]>> ELSE <<>>)
                 \o (IF items_mean # <<>> THEN <<[p |-> items_mean[1], w |-> 35]>> ELSE <<>>)
                 \o (IF facts_mean # <<>> THEN <<[p |-> facts_mean[1], w |-> 20]>> ELSE <<>>)
        tool_confs == ToolConfs(fm)
        total_w == SumSeq([i \in DOMAIN parts |-> parts[i].w])
        weighted == RoundDiv(SumSeq([i \in DOMAIN parts |-> parts[i].p * parts[i].w]), total_w)
        boost == 1000 + Min(100, 100 * Len(fm)) + Min(50, 50 * signals.n_items)
    IN  IF n_missing > 0 THEN Max(0, Min(One, base))
        ELSE IF parts = <<>>
        THEN IF tool_confs # <<>> THEN RoundDiv(SumSeq(tool_confs), Len(tool_confs))
             ELSE One \div 2
        ELSE Max(0, Min(One, RoundDiv(weighted * boost, 1000)))

\* compute_confidence(signals, facts, required_tools); a call that passes
\* prov_entries= and no facts has fm = <<>> and required_tools = <<>>
compute_confidence(signals, fm, required_tools) ==
    LET handler_conf == signals.handler_confidence
        items_mean == signals.items_mean_score
        facts_mean == signals.facts_mean_confidence
        n_required == Len(required_tools)
        n_missing == Cardinality({i \in DOMAIN required_tools : ~FactsHas(fm, required_tools[i])})
        present == n_required - n_missing
        base == IF items_mean # <<>> THEN RoundDiv(items_mean[1] * present, n_required)
                ELSE IF handler_conf # <<>> THEN RoundDiv(handler_conf[1] * present, n_required)
                ELSE Max(0, RoundDiv((One \div 2) * present, n_required))
        parts == (IF handler_conf # <<>> THEN <<[p |-> handler_conf[1], w |-> 45]>> ELSE <<>>)
                 \o (IF items_mean # <<>> THEN <<[p |-> items_mean[1], w |-> 35]>> ELSE <<>>)
                 \o (IF facts_mean # <<>> THEN <<[p |-> facts_mean[1], w |-> 20]>> ELSE <<>>)
        tool_confs == ToolConfs(fm)
        total_w == SumSeq([i \in DOMAIN parts |-> parts[i].w])
        weighted == RoundDiv(SumSeq([i \in DOMAIN parts |-> parts[i].p * parts[i].w]), total_w)
        boost == 1000 + Min(100, 100 * Len(fm)) + Min(50, 50 * signals.n_items)
    IN  IF n_missing > 0 THEN Max(0, Min(One, base))
        ELSE IF parts = <<>>
        THEN IF tool_confs # <<>> THEN RoundDiv(SumSeq(tool_confs), Len(tool_confs))
             ELSE One \div 2
        ELSE Max(0, Min(One, RoundDiv(weighted * boost, 1000)))


(***************************************************************************)
(* rules/irrigation_decision.py                                            *)
(*                                                                         *)
(* Rain is in mm, soil moisture in percent.  The forecasts drawn are daily *)
(* (no entry has an "hour", "time" or "datetime" key).                     *)
(***************************************************************************)

RAIN_THRESHOLD_MM == 10
SOIL_MOISTURE_DEFAULT_THRESHOLD == 30

\* _sum_forecast_rain_mm(weather, hours=48) of a daily forecast: <<>> is None
sum_forecast_rain_mm(weather) ==
    IF ~Truthy(weather) \/ ~IsDict(weather) THEN <<>>
    ELSE IF ~Has(weather, "forecast") \/ weather.forecast = <<>> THEN <<>>
    ELSE LET first2 == SubSeq(weather.forecast, 1, Min(2, Len(weather.forecast)))
         IN  << SumSeq([i \in DOMAIN first2 |->
                          IF Has(first2[i], "rain_mm") THEN first2[i].rain_mm ELSE 0]) >>

\* _extract_soil_moisture(soil): a value in 0..1 is a fraction
extract_soil_moisture(soil) ==
    IF ~Truthy(soil) \/ ~IsDict(soil) \/ ~Has(soil, "soil_moisture_pct") THEN <<>>
    ELSE IF 0 <= soil.soil_moisture_pct /\ soil.soil_moisture_pct <= 1
    THEN <<soil.soil_moisture_pct * 100>>
    ELSE <<soil.soil_moisture_pct>>

\* _determine_stage_threshold(calendar, crop_stage), of a lower-case stage
\* name; the table SOIL_MOISTURE_STAGE_ADJUSTMENT is empty
determine_stage_threshold(calendar, crop_stage) ==
    IF /\ IsDict(calendar) /\ Has(calendar, "stage_moisture_thresholds")
       /\ StrTruthy(crop_stage)
       /\ crop_stage \in DOMAIN calendar.stage_moisture_thresholds
    THEN calendar.stage_moisture_thresholds[crop_stage]
    ELSE SOIL_MOISTURE_DEFAULT_THRESHOLD

\* _build_decision_item(recommendation, reasons, tradeoffs, meta, sources):
\* the recommendation is a parameter the body does not use
build_decision_item(recommendation, meta) ==
    [name |-> "irrigation_decision", score |-> <<>>, meta |-> meta]

\* the dict of a decision return: the item with item["score"] = conf
IrrigationResult(recommendation, conf, meta, notes) ==
    [action |-> "irrigation_now_or_wait",
     items |-> << [build_decision_item(recommendation, meta) EXCEPT !.score = <<conf>>] >>,
     confidence |-> <<conf>>,
     notes |-> notes]

\* the notes of the four decision returns
NotesRainExpected == "Forecasted rain in next 48 hours; recommend waiting for rain."
NotesSoilDry == "Soil moisture below threshold. Recommend irrigation now."
NotesSoilSufficient == "Soil moisture appears sufficient; recommend waiting."
NotesCriticalStage ==
    "Critical crop stage with insufficient forecast rain; recommend irrigation."

\* irrigation_decision.handle(intent, facts).  In meta an optional number
\* <<>> and a crop_stage None stand for a key that is not set.
irrigation_handle(intent, fm) ==
    LET weather == FactsGet(fm, "weather_outlook")
        calendar == FactsGet(fm, "calendar_lookup")
        soil == IF Truthy(FactsGet(fm, "soil")) THEN FactsGet(fm, "soil")
                ELSE IF Truthy(FactsGet(fm, "soil_sample")) THEN FactsGet(fm, "soil_sample")
                ELSE FactsGet(fm, "soil_moisture")
        missing == (IF ~Truthy(weather) THEN <<"weather_outlook">> ELSE <<>>)
                   \o (IF ~Truthy(calendar) THEN <<"calendar_lookup">> ELSE <<>>)
        rain_48 == sum_forecast_rain_mm(weather)
        soil_moisture_pct == extract_soil_moisture(soil)
        crop_stage == StrOr(intent.crop_stage, GetStr(calendar, "current_stage"))
        stage_threshold == determine_stage_threshold(calendar, crop_stage)
        required == <<"weather_outlook", "calendar_lookup">>
        conf == compute_confidence(NoSignals, fm, required)
        critical == IF Has(calendar, "critical_stages") THEN DOMAIN calendar.critical_stages
                    ELSE {}
        meta == [forecast_rain_48h_mm |-> rain_48, soil_moisture_pct |-> soil_moisture_pct,
                 crop_stage |-> crop_stage]
        missing_fields ==
            (IF soil = NoValue THEN <<"soil or soil_moisture">> ELSE <<>>)
            \o (IF ~StrTruthy(crop_stage)
                THEN <<"crop_stage (current_stage or days_after_sowing)">> ELSE <<>>)
            \o (IF rain_48 = <<>>
                THEN <<"forecast rainfall (weather_outlook.forecast)">> ELSE <<>>)
    IN  IF fm = <<>>
        THEN RequireMoreInfo("No facts provided", <<"weather_outlook", "calendar_lookup">>)
        ELSE IF missing # <<>> THEN RequireMoreInfo("Missing required tool outputs", missing)
        ELSE IF rain_48 # <<>> /\ rain_48[1] >= RAIN_THRESHOLD_MM
        THEN IrrigationResult("wait_for_rain", compute_confidence(NoSignals, <<>>, <<>>),
                              [forecast_rain_48h_mm |-> rain_48], NotesRainExpected)
        ELSE IF ~StrTruthy(intent.crop_stage) /\ ~IsDict(calendar)
        THEN Raised("AttributeError")
        ELSE IF soil_moisture_pct # <<>>
        THEN IF soil_moisture_pct[1] < stage_threshold
             THEN IrrigationResult("irrigate_now", conf, meta, NotesSoilDry)
             ELSE IrrigationResult("wait_for_rain", conf, meta, NotesSoilSufficient)
        ELSE IF StrTruthy(crop_stage) /\ crop_stage \in critical
        THEN IrrigationResult("irrigate_now", conf, meta, NotesCriticalStage)
        ELSE RequireMoreInfo("Insufficient data to make a safe irrigation decision.",
                             missing_fields)

(***************************************************************************)
(* rules/temperature_risk.py                                               *)
(***************************************************************************)

\* 1.0 on the severity scale
SevScale == 7 * 10000

\* largest breach drawn, in tenths of a degree
MaxBreachTenths == 120

\* _severity_from_difference with the first tier's slope mistaken (0.3 per
\* degree instead of 0.2): the tiers no longer meet at d = 1.
severity_from_difference_steep(diff) ==
    IF diff <= 0 THEN 0
    ELSE LET sev == IF diff <= 10 THEN 7000 + diff * 2100
                    ELSE IF diff <= 30 THEN 21000 + (diff - 10) * 1400
                    ELSE 49000 + Min(diff - 30, 70) * 300
         IN  Max(0, Min(SevScale, sev))

\* _severity_from_difference(diff, reference): diff in tenths of a degree,
\* the result on SevScale.
\*   diff <= 1.0 : 0.1 + diff * 0.2
\*   diff <= 3.0 : 0.3 + ((diff - 1.0) / 2.0) * 0.4
\*   else        : 0.7 + (min(diff - 3.0, 7.0) / 7.0) * 0.3
severity_from_difference(diff) ==
    IF diff <= 0 THEN 0
    ELSE LET sev == IF diff <= 10 THEN 7000 + diff * 1400
                    ELSE IF diff <= 30 THEN 21000 + (diff - 10) * 1400
                    ELSE 49000 + Min(diff - 30, 70) * 300
         IN  Max(0, Min(SevScale, sev))

DEFAULT_LOOKAHEAD_DAYS == 7
\* tenths of a degree
DEFAULT_FROST_THRESHOLD_C == 20
DEFAULT_HEAT_THRESHOLD_C == 380

\* _normalize_forecast_days(weather_out): the days that carry a temperature,
\* from a forecast list of day dicts or else from the parallel arrays
\* time / tmin_c / tmax_c.  <<>> is None.
normalize_forecast_days(weather_out) ==
    IF ~Truthy(weather_out) \/ ~IsDict(weather_out) THEN <<>>
    ELSE
    LET raw_fc == IF Has(weather_out, "forecast") THEN weather_out.forecast ELSE <<>>
        fromList == [i \in DOMAIN raw_fc |->
                        [date |-> raw_fc[i].date,
                         t_min |-> GetNum(raw_fc[i], "t_min"),
                         t_max |-> GetNum(raw_fc[i], "t_max")]]
        time_arr == IF Has(weather_out, "time") THEN weather_out.time ELSE <<>>
        tmin_arr == IF Has(weather_out, "tmin_c") THEN weather_out.tmin_c ELSE <<>>
        tmax_arr == IF Has(weather_out, "tmax_c") THEN weather_out.tmax_c ELSE <<>>
        length == Min(Len(time_arr), Len(tmin_arr))
        fromArrays == [i \in 1 .. length |->
                          [date |-> time_arr[i],
                           t_min |-> <<tmin_arr[i]>>,
                           t_max |-> IF i <= Len(tmax_arr) THEN <<tmax_arr[i]>> ELSE <<>>]]
        normalized == IF fromList # <<>> THEN fromList ELSE fromArrays
        WithTemp(d) == d.t_min # <<>> \/ d.t_max # <<>>
    IN  SelectSeq(normalized, WithTemp)

\* _get_stage_thresholds(calendar, stage): a threshold of the stage's entry
\* in critical_temps, else a top-level one, else the default; a threshold
\* of 0 in the stage's entry is falsy and is passed over
get_stage_thresholds(calendar, stage) ==
    LET candidates == IF Has(calendar, "critical_temps") THEN calendar.critical_temps ELSE <<>>
        val == IF StrTruthy(stage) /\ stage \in DOMAIN candidates
               THEN candidates[stage] ELSE [nulls |-> {}]
        frost == NumOr(NumOr(GetNum(val, "frost_threshold"), <<>>),
                       IF IsDict(calendar) THEN GetNum(calendar, "frost_threshold") ELSE <<>>)
        heat == NumOr(NumOr(GetNum(val, "heat_threshold"), <<>>),
                      IF IsDict(calendar) THEN GetNum(calendar, "heat_threshold") ELSE <<>>)
    IN  [frost_threshold |-> IF frost # <<>> THEN frost[1] ELSE DEFAULT_FROST_THRESHOLD_C,
         heat_threshold |-> IF heat # <<>> THEN heat[1] ELSE DEFAULT_HEAT_THRESHOLD_C]

\* _select_worst_day_for_risk(days, risk_type, threshold, lookahead): <<>> when
\* no day of the window carries the temperature, else the first day with
\* the extreme temperature, the breach and its severity
select_worst_day_for_risk(days, risk_type, threshold, lookahead) ==
    LET consider == SubSeq(days, 1, Min(lookahead, Len(days)))
        Temp(d) == IF risk_type = "frost" THEN d.t_min ELSE d.t_max
        Worse(a, b) == IF risk_type = "frost" THEN a < b ELSE a > b
        I == {i \in DOMAIN consider : Temp(consider[i]) # <<>>}
        best == CHOOSE i \in I :
                    \A j \in I : /\ ~Worse(Temp(consider[j])[1], Temp(consider[i])[1])
                                 /\ (Temp(consider[j])[1] = Temp(consider[i])[1] => i <= j)
        best_val == Temp(consider[best])[1]
        diff == IF risk_type = "frost" THEN threshold - best_val ELSE best_val - threshold
    IN  IF I = {} THEN <<>>
        ELSE << [day |-> consider[best], observed |-> best_val, diff |-> diff,
                 severity |-> IF diff > 0 THEN severity_from_difference(diff) ELSE 0] >>

\* _build_item(name, severity, ...): the score is round(severity, 4)
temperature_build_item(name, worst, threshold) ==
    [name |-> name,
     score |-> <<RoundDiv(worst.severity * One, SevScale)>>,
     meta |-> [worst_date |-> worst.day.date, observed |-> worst.observed,
               threshold |-> threshold, diff |-> worst.diff]]

\* temperature_risk.handle(intent, facts)
temperature_handle(intent, fm) ==
    LET weather == FactsGet(fm, "weather_outlook")
        calendar == FactsGet(fm, "calendar_lookup")
        missing == (IF ~Truthy(weather) THEN <<"weather_outlook">> ELSE <<>>)
                   \o (IF ~Truthy(calendar) THEN <<"calendar_lookup">> ELSE <<>>)
        lookahead_days == IF intent.lookahead_days # <<>> THEN intent.lookahead_days[1]
                          ELSE DEFAULT_LOOKAHEAD_DAYS
        days == normalize_forecast_days(weather)
        crop_stage == StrOr(intent.crop_stage, GetStr(calendar, "current_stage"))
        thresholds == get_stage_thresholds(calendar, crop_stage)
        frost == select_worst_day_for_risk(days, "frost", thresholds.frost_threshold, lookahead_days)
        heat == select_worst_day_for_risk(days, "heat", thresholds.heat_threshold, lookahead_days)
        items == (IF frost # <<>> /\ frost[1].severity > 0
                  THEN <<temperature_build_item("frost_risk", frost[1], thresholds.frost_threshold)>>
                  ELSE <<>>)
                 \o (IF heat # <<>> /\ heat[1].severity > 0
                     THEN <<temperature_build_item("heat_risk", heat[1], thresholds.heat_threshold)>>
                     ELSE <<>>)
        prov_entries == extract_provenance_from_facts(fm)
        heuristic_conf == IF Len(days) > 0 THEN 7500 ELSE 4000
        quiet_helper == compute_confidence(NoSignals, <<>>, <<>>)
        quiet_conf == IF prov_entries # <<>>
                      THEN RoundDiv(6 * quiet_helper + 4 * heuristic_conf, 10)
                      ELSE RoundDiv(8 * heuristic_conf + 2 * quiet_helper, 10)
        base_conf == RoundDiv(SumSeq([i \in DOMAIN items |-> items[i].score[1]]), Len(items))
        helper_conf == compute_confidence(
                           [handler_confidence |-> <<base_conf>>, items_mean_score |-> <<base_conf>>,
                            facts_mean_confidence |-> <<>>, n_items |-> Len(items)],
                           fm, <<"weather_outlook", "calendar_lookup">>)
        final_conf == IF prov_entries # <<>>
                      THEN RoundDiv(6 * helper_conf + 4 * base_conf, 10)
                      ELSE RoundDiv(8 * base_conf + 2 * helper_conf, 10)
    IN  IF fm = <<>>
        THEN RequireMoreInfo("No facts provided", <<"weather_outlook", "calendar_lookup">>)
        ELSE IF missing # <<>> THEN RequireMoreInfo("Missing required tool outputs", missing)
        ELSE IF days = <<>>
        THEN RequireMoreInfo("No usable forecast entries in weather_outlook.forecast",
                             <<"weather_outlook.forecast">>)
        ELSE IF items = <<>>
        THEN [action |-> "frost_or_heat_risk_assessment", items |-> <<>>,
              handler_confidence |-> <<Max(0, Min(One, quiet_conf))>>,
              nulls |-> {"confidence"},
              notes |-> "No frost or heat risk detected"]
        ELSE [action |-> "frost_or_heat_risk_assessment", items |-> items,
              handler_confidence |-> <<Max(0, Min(One, final_conf))>>,
              nulls |-> {"confidence"},
              notes |-> "Detected temperature risks"]

SeverityInit ==
    /\ pc = "severity"
    /\ fn_in \in [d1 : (0 - 10) .. MaxBreachTenths, d2 : (0 - 10) .. MaxBreachTenths]
    /\ fn_out = NoValue
    /\ OrchIdle

\* two evaluations of _severity_from_difference, as two days of a forecast
\* give them to _select_worst_day_for_risk
SeverityCall ==
    /\ pc = "severity"
    /\ fn_out' = [s1 |-> severity_from_difference(fn_in.d1),
                  s2 |-> severity_from_difference(fn_in.d2)]
    /\ pc' = "done"
    /\ UNCHANGED <<fn_in, orch_vars>>

SeverityNext == SeverityCall

SpecSeverity == SeverityInit /\ [][SeverityNext]_vars

\* C8 (as stated): severity(0) = 0 and severity is strictly increasing in the
\* breach d for all 0 <= d1 < d2, breaches above 10 degrees included.
C8_StrictEverywhere ==
    pc = "done" =>
        /\ (fn_in.d1 = 0 => fn_out.s1 = 0)
        /\ (0 <= fn_in.d1 /\ fn_in.d1 < fn_in.d2 => fn_out.s1 < fn_out.s2)

\* C8 (amended): severity(0) = 0; severity is strictly increasing in d for
\* 0 <= d1 < d2 <= 10 degrees, the tier boundaries at 1 and 3 included; from
\* 10 degrees on it is constant at 1.0, so it never decreases.
C8_StrictUpToCap ==
    pc = "done" =>
        /\ (fn_in.d1 = 0 => fn_out.s1 = 0)
        /\ (0 <= fn_in.d1 /\ fn_in.d1 < fn_in.d2 /\ fn_in.d2 <= 100
                => fn_out.s1 < fn_out.s2)
        /\ (fn_in.d1 <= fn_in.d2 => fn_out.s1 <= fn_out.s2)
        /\ (fn_in.d1 >= 100 => fn_out.s1 = SevScale)

\* a breach of exactly 1 degree compared with one just above it, and a
\* breach beyond the cap
C8_Witness ==
    /\ pc = "done"
    /\ fn_in.d1 = 10 /\ fn_in.d2 = 11
    /\ fn_out.s1 = 21000 /\ fn_out.s2 = 22400

(***************************************************************************)
(* rules/variety_selection.py                                              *)
(*                                                                         *)
(* Sub-scores and tolerances are on the scale One, temperatures in tenths  *)
(* of a degree, pH in tenths, rain in mm; None is <<>>.  The numbers drawn *)
(* make every intermediate quotient exact on these scales.                 *)
(***************************************************************************)

\* _compute_maturity_score(var_maturity, typical_maturity): <<>> is None
compute_maturity_score(var_maturity, typical_maturity) ==
    IF var_maturity = <<>> \/ typical_maturity = <<>> THEN <<>>
    ELSE IF typical_maturity[1] <= 0 THEN <<>>
    ELSE LET vm == var_maturity[1]
             tm == typical_maturity[1]
             err == IF vm >= tm THEN vm - tm ELSE tm - vm
         IN  << Max(0, Min(One, One - Min(One, RoundDiv(err * One, tm)))) >>

\* whether _create_varieties_from_calendar reads the crops out of the
\* name-to-crop mapping calendar_data["calendar"]
ReadsCalendarMapping(calendar_data) ==
    /\ Truthy(calendar_data) /\ IsDict(calendar_data)
    /\ (IF Has(calendar_data, "crops") THEN calendar_data.crops ELSE <<>>) = <<>>
    /\ Has(calendar_data, "calendar") /\ IsDict(calendar_data.calendar)

\* calendar_data["calendar"] after the loop "crop_info['crop_name'] =
\* crop_name" has run over its items
NamedCalendarMapping(mapping) ==
    [name \in DOMAIN mapping |->
        [k \in DOMAIN mapping[name] \cup {"crop_name"} |->
            IF k = "crop_name" THEN name
            ELSE IF k = "nulls" THEN mapping[name].nulls \ {"crop_name"}
            ELSE mapping[name][k]]]

\* the items of a mapping as a list (the mappings drawn hold one crop)
RECURSIVE MappingValues(_)
MappingValues(mapping) ==
    IF DOMAIN mapping = {} THEN <<>>
    ELSE LET name == CHOOSE k \in DOMAIN mapping : TRUE
         IN  <<mapping[name]>> \o MappingValues([k \in DOMAIN mapping \ {name} |-> mapping[k]])

\* _create_varieties_from_calendar(calendar_data): one pseudo-variety per
\* crop of the calendar; a crop whose crop_name is None raises at
\* crop_name.lower()
create_varieties_from_calendar(calendar_data) ==
    IF ~Truthy(calendar_data) \/ ~IsDict(calendar_data) THEN [py |-> "list", elems |-> <<>>]
    ELSE LET crops_data == IF ReadsCalendarMapping(calendar_data)
                           THEN MappingValues(NamedCalendarMapping(calendar_data.calendar))
                           ELSE IF Has(calendar_data, "crops") THEN calendar_data.crops
                           ELSE <<>>
         IN  IF \E i \in DOMAIN crops_data : ~Has(crops_data[i], "crop_name")
                                             /\ HasKey(crops_data[i], "crop_name")
             THEN Raised("AttributeError")
             ELSE [py |-> "list",
                   elems |-> [i \in DOMAIN crops_data |->
                                [name |-> IF Has(crops_data[i], "crop_name")
                                          THEN crops_data[i].crop_name ELSE "crop_n",
                                 maturity_days |-> 120,
                                 market_preference_score |-> 7000,
                                 source |-> "regional_calendar"]]]

\* the varieties handle reads out of variety_out: a list itself, or the
\* "varieties" list of a dict (the dicts drawn are no dict of variety dicts)
varieties_of(variety_out) ==
    IF ~IsDict(variety_out)
    THEN IF variety_out.py = "list" THEN variety_out.elems ELSE <<>>
    ELSE IF Has(variety_out, "varieties") THEN variety_out.varieties ELSE <<>>

\* statistics.mean of a non-empty list
MeanOf(xs) == RoundDiv(SumSeq(xs), Len(xs))

\* _avg_forecast_temp_and_rain(weather) of a dict whose days are dicts, as
\* far as _compute_climate_signal reads it: mean_max_temp, and total_rain_mm,
\* a key this function never sets (it sets total_rain)
avg_forecast_temp_and_rain(weather) ==
    LET fc == IF Has(weather, "forecast") THEN weather.forecast ELSE <<>>
        HasTmax(day) == NumOr(GetNum(day, "t_max"), <<>>) # <<>>
        HasTmin(day) == NumOr(GetNum(day, "t_min"), <<>>) # <<>>
        HasRain(day) == NumOr(GetNum(day, "rain_mm"), <<>>) # <<>>
        with_max == SelectSeq(fc, HasTmax)
        temps_max == [i \in DOMAIN with_max |-> with_max[i].t_max]
    IN  IF fc = <<>> THEN <<>>
        ELSE IF temps_max = <<>> /\ SelectSeq(fc, HasTmin) = <<>> /\ SelectSeq(fc, HasRain) = <<>>
        THEN <<>>
        ELSE << [mean_max_temp |-> IF temps_max = <<>> THEN <<>> ELSE <<MeanOf(temps_max)>>,
                 total_rain_mm |-> <<>>] >>

\* _compute_climate_signal(weather) of a dict: <<[hotness, dryness]>>, or
\* <<>> for None
compute_climate_signal(weather) ==
    LET arrays == /\ HasKey(weather, "tmax_c") /\ HasKey(weather, "tmin_c")
                  /\ HasKey(weather, "rain_mm")
                  /\ Has(weather, "tmax_c") /\ Has(weather, "tmin_c") /\ Has(weather, "rain_mm")
                  /\ weather.tmax_c # <<>> /\ weather.tmin_c # <<>> /\ weather.rain_mm # <<>>
        forecast_stats == IF arrays
                          THEN << [mean_max_temp |-> <<MeanOf(weather.tmax_c)>>,
                                   total_rain_mm |-> <<SumSeq(weather.rain_mm)>>] >>
                          ELSE avg_forecast_temp_and_rain(weather)
        mean_max == forecast_stats[1].mean_max_temp
        total_rain == forecast_stats[1].total_rain_mm
        hotness == IF mean_max = <<>> THEN <<>>
                   ELSE IF mean_max[1] > 350
                   THEN << Min(One, RoundDiv((mean_max[1] - 350) * One, 50)) >>
                   ELSE IF mean_max[1] < 300 THEN <<0>>
                   ELSE << RoundDiv((mean_max[1] - 300) * One, 50) >>
        dryness == IF total_rain = <<>> THEN <<>>
                   ELSE IF total_rain[1] < 125 THEN <<8000>>
                   ELSE IF total_rain[1] < 200 THEN <<4000>>
                   ELSE <<1000>>
    IN  IF ~Truthy(weather) \/ forecast_stats = <<>> THEN <<>>
        ELSE IF hotness = <<>> /\ dryness = <<>> THEN <<>>
        ELSE << [hotness |-> IF hotness = <<>> THEN 0 ELSE hotness[1],
                 dryness |-> IF dryness = <<>> THEN 0 ELSE dryness[1]] >>

\* the heat tolerance handle reads of a variety: an "or" chain over three
\* keys, so a 0 under one key passes on to the next
heat_tolerance_of(v) ==
    NumOr(GetNum(v, "heat_tolerance"),
          NumOr(GetNum(v, "heat_tolerance_score"), GetNum(v, "heat_tolerance_index")))

\* the climate match handle computes of the tolerances it has read
climate_match(heat_tol, drought_tol, climate_signal) ==
    IF climate_signal = <<>> THEN <<>>
    ELSE LET hotness == climate_signal[1].hotness
             dryness == climate_signal[1].dryness
             comps == (IF heat_tol = <<>> THEN <<>>
                       ELSE << One - hotness + RoundDiv(hotness * heat_tol[1], One) >>)
                      \o (IF drought_tol = <<>> THEN <<>>
                          ELSE << One - dryness + RoundDiv(dryness * drought_tol[1], One) >>)
         IN  IF comps = <<>> THEN <<>> ELSE <<MeanOf(comps)>>

\* _compute_pest_score(var, rag): the mean resistance over the reported
\* pests the variety declares one for (the pest names drawn are lower-case
\* strings, pest_resistance a dict)
compute_pest_score(v, rag) ==
    IF ~Truthy(rag) \/ ~IsDict(rag) THEN <<>>
    ELSE LET pests == IF Has(rag, "pests") /\ rag.pests # <<>> THEN rag.pests
                      ELSE IF Has(rag, "detected_pests") THEN rag.detected_pests
                      ELSE <<>>
             Known(pname) == Has(v, "pest_resistance") /\ Has(v.pest_resistance, pname)
             known == SelectSeq(pests, Known)
             resistances == [i \in DOMAIN known |-> v.pest_resistance[known[i]]]
         IN  IF resistances = <<>> THEN <<>> ELSE <<MeanOf(resistances)>>

\* the soil pH match handle computes (the ranges drawn are lists
\* [low, high] with low <= high)
soil_ph_match(v, soil_out) ==
    LET var_ph_range == IF Has(v, "ph_range") /\ v.ph_range # <<>> THEN v.ph_range
                        ELSE IF Has(v, "ph_tolerance") THEN v.ph_tolerance
                        ELSE <<>>
        soil_ph == NumOr(GetNum(soil_out, "pH"), GetNum(soil_out, "ph"))
    IN  IF var_ph_range = <<>> \/ ~Truthy(soil_out) \/ ~IsDict(soil_out) \/ soil_ph = <<>>
        THEN <<>>
        ELSE LET low == var_ph_range[1]
                 high == var_ph_range[2]
                 sp == soil_ph[1]
                 off == IF 2 * sp >= low + high THEN 2 * sp - (low + high)
                        ELSE (low + high) - 2 * sp
             IN  IF low <= sp /\ sp <= high THEN <<One>>
                 ELSE IF high # low THEN << Max(0, One - RoundDiv(off * One, high - low)) >>
                 ELSE << Max(0, One - RoundDiv(off * One, 20)) >>

\* the sub-scores handle gathers of one variety, in the order maturity,
\* climate, pest, market preference, soil, the None ones left out; heat_tol
\* is the heat tolerance read
gather_scores(v, heat_tol, typical_maturity, climate_signal, rag_out, soil_out) ==
    compute_maturity_score(GetNum(v, "maturity_days"), typical_maturity)
    \o climate_match(heat_tol, GetNum(v, "drought_tolerance"), climate_signal)
    \o compute_pest_score(v, rag_out)
    \o GetNum(v, "market_preference_score")
    \o soil_ph_match(v, soil_out)

\* final_score of the scores gathered
final_score_of(scores) == IF scores # <<>> THEN MeanOf(scores) ELSE 0

\* the item handle builds of one variety, score on One
variety_item(v, typical_maturity, climate_signal, rag_out, soil_out) ==
    LET maturity_score == compute_maturity_score(GetNum(v, "maturity_days"), typical_maturity)
        market_pref == GetNum(v, "market_preference_score")
        scores == gather_scores(v, heat_tolerance_of(v), typical_maturity, climate_signal,
                                rag_out, soil_out)
    IN  [name |-> StrOr(GetStr(v, "name"), "unknown_variety"),
         score |-> <<final_score_of(scores)>>,
         meta |-> [maturity_score |-> maturity_score, market_preference_score |-> market_pref]]

\* top_n of handle: the intent's top_n when the intent is a dict that has
\* one, else 3 (the validated model the orchestrator passes is no dict)
top_n_of(intent) == IF Has(intent, "top_n") THEN intent.top_n ELSE 3

\* variety_selection.handle(intent, facts)
variety_handle(intent, fm) ==
    LET looked_up == FactsGet(fm, "variety_lookup")
        calendar_out == FactsGetOr(fm, "calendar_lookup", "calendar")
        weather_out == FactsGetOr(fm, "weather_outlook", "weather")
        soil_out == FactsGet(fm, "soil")
        rag_out == IF Truthy(FactsGetOr(fm, "rag_search", "rag"))
                   THEN FactsGetOr(fm, "rag_search", "rag")
                   ELSE FactsGet(fm, "extension_notes")
        fallback == ~Truthy(looked_up) /\ Truthy(calendar_out)
        variety_out == IF fallback THEN create_varieties_from_calendar(calendar_out)
                       ELSE looked_up
        missing == (IF ~Truthy(variety_out) THEN <<"variety_lookup">> ELSE <<>>)
                   \o (IF ~Truthy(calendar_out) THEN <<"calendar_lookup">> ELSE <<>>)
        varieties == varieties_of(variety_out)
        typical_maturity == IF IsDict(calendar_out)
                            THEN NumOr(GetNum(calendar_out, "typical_maturity_days"),
                                       NumOr(GetNum(calendar_out, "maturity_days"), <<>>))
                            ELSE <<>>
        weather_data == IF IsDict(weather_out) /\ Has(weather_out, "data")
                        THEN weather_out.data ELSE weather_out
        climate_signal == IF Truthy(weather_out) THEN compute_climate_signal(weather_data)
                          ELSE <<>>
        items == [i \in DOMAIN varieties |->
                    variety_item(varieties[i], typical_maturity, climate_signal, rag_out, soil_out)]
        per_item_scores == [i \in DOMAIN items |-> items[i].score[1]]
        items_sorted == SortByWeightDesc(items, per_item_scores)
        top_n == top_n_of(intent)
    IN  IF fm = <<>>
        THEN RequireMoreInfo("No facts provided", <<"variety_lookup", "calendar_lookup">>)
        ELSE IF ~IsDict(variety_out) /\ variety_out.py = "raise" THEN variety_out
        ELSE IF missing # <<>> THEN RequireMoreInfo("Missing required tool outputs", missing)
        ELSE IF varieties = <<>>
        THEN RequireMoreInfo("No varieties present in variety_lookup", <<>>)
        ELSE IF Truthy(weather_out) /\ ~IsDict(weather_data) THEN Raised("AttributeError")
        ELSE [action |-> "variety_ranked_list",
              items |-> SubSeq(items_sorted, 1, Min(top_n, Len(items_sorted))),
              handler_confidence |-> <<RoundDiv(SumSeq(per_item_scores), Len(per_item_scores))>>,
              nulls |-> {"confidence"},
              notes |-> "Variety selection based on maturity, climate, pest resistance, and market preferences."]

(***************************************************************************)
(* models.py: the input schema                                             *)
(*                                                                         *)
(* A payload is a dict.  Its intent and decision_template are tagged with  *)
(* their Python type, its tool_calls likewise ([py |-> "list", elems]);    *)
(* its facts overlay is an insertion-ordered dict like facts.              *)
(***************************************************************************)

Str(s) == [py |-> "str", s |-> s]
PyInt == [py |-> "int"]
EmptyDict == [nulls |-> {}]

ToolNameLiteral ==
    {"weather_outlook", "prices_fetch", "calendar_lookup", "variety_lookup",
     "policy_match", "pesticide_lookup", "storage_find", "rag_search",
     "crop_calendar", "soil_profile", "mandi_prices"}

\* the mapping of ToolCall.validate_and_parse_output: the strict model of a
\* tool's output, NONE for a tool without one
ToolOutputModel(tool) ==
    CASE tool = "weather_outlook" -> "WeatherOutput"
      [] tool \in {"prices_fetch", "mandi_prices"} -> "MandiPriceOutput"
      [] tool \in {"calendar_lookup", "crop_calendar"} -> "CropCalendarOutput"
      [] tool \in {"variety_lookup", "rag_search"} -> "RagSearchOutput"
      [] tool \in {"policy_match", "storage_find"} -> "DatasetSourceOutput"
      [] tool = "pesticide_lookup" -> "PesticideOutput"
      [] tool = "soil_profile" -> "SoilSampleOutput"
      [] OTHER -> NONE

\* the fields a model declares: those that default to None, to an empty
\* list, to an empty dict; and whether it keeps undeclared fields
ModelFields(model_cls) ==
    CASE model_cls = "WeatherOutput" ->
           [scalars |-> {"lat", "lon", "elevation", "tz", "run_at", "wind_speed_10m_ms",
                         "rh_mean_pct", "shortwave_radiation_mj_m2", "source_id", "source_type"},
            lists |-> {"time", "tmin_c", "tmax_c", "rain_mm", "et0_mm", "time_hourly",
                       "temp_2m_c", "precip_mm", "et0_hourly_mm",
                       "wind_speed_hourly_10m_ms", "rh_2m_pct"},
            dicts |-> {}, extra |-> FALSE]
      [] model_cls = "CropCalendarOutput" ->
           [scalars |-> {"state", "district", "agro_climatic_zone", "source_type", "source_url",
                         "doc_date", "last_checked", "normal_annual_rain_mm",
                         "rainfall_pattern_notes", "source_id"},
            lists |-> {"dominant_soils", "crops", "dataset_sources"},
            dicts |-> {}, extra |-> FALSE]
      [] model_cls = "CropEntry" ->
           [scalars |-> {"crop_name", "season", "planting_window", "stage_lengths_days",
                         "irrigation_ideal", "soil_ideal", "market_mapping"},
            lists |-> {"stages", "contingencies", "data_gaps", "sources"},
            dicts |-> {"weather_ideal"}, extra |-> TRUE]
      [] model_cls = "MandiPriceOutput" ->
           [scalars |-> {"state", "district", "market", "arrival_date", "commodity", "variety",
                         "min_price_rs_per_qtl", "max_price_rs_per_qtl",
                         "modal_price_rs_per_qtl", "arrival_qty", "source_url", "source_id",
                         "source_type", "last_checked"},
            lists |-> {}, dicts |-> {}, extra |-> FALSE]
      [] model_cls = "PesticideOutput" ->
           [scalars |-> {"crop_name", "target", "active_ingredient", "formulation",
                         "dose_ai_g_ha", "dose_formulation_qty_per_ha", "spray_volume_l_ha",
                         "application_method", "phi_days", "ppe_notes", "who_class",
                         "label_source_url", "as_on_date", "last_checked", "status", "notes",
                         "source_id", "source_type"},
            lists |-> {"sources"}, dicts |-> {}, extra |-> FALSE]
      [] model_cls = "DatasetSourceOutput" ->
           [scalars |-> {"key", "title", "url", "tier", "last_checked", "source_id",
                         "source_type"},
            lists |-> {}, dicts |-> {}, extra |-> FALSE]
      [] model_cls = "RagSearchOutput" ->
           [scalars |-> {"source", "source_id", "source_type"},
            lists |-> {"results"}, dicts |-> {}, extra |-> FALSE]
      [] model_cls = "RagResultItem" ->
           [scalars |-> {"doc_id", "text", "relevance", "meta", "source_id", "source_type"},
            lists |-> {}, dicts |-> {}, extra |-> FALSE]
      [] OTHER ->
           \* SoilSampleOutput: undeclared fields are kept
           [scalars |-> {"state", "district", "ph", "source_id", "source_type"},
            lists |-> {}, dicts |-> {}, extra |-> TRUE]

\* the model nested in a list field, NONE where the items are kept as given
NestedModel(model_cls, k) ==
    IF model_cls = "CropCalendarOutput" /\ k = "crops" THEN "CropEntry"
    ELSE IF model_cls = "RagSearchOutput" /\ k = "results" THEN "RagResultItem"
    ELSE NONE

\* whether model_cls.parse_obj(out) succeeds, for the outputs drawn: a
\* value that is no dict fails; a WeatherOutput fails on a lat that is no number, a RagSearchOutput on a
\* result without its required doc_id
SchemaValid(model_cls, out) ==
    /\ IsDict(out)
    /\ (model_cls = "WeatherOutput" /\ Has(out, "lat")) => out.lat.py = "float"
    /\ (model_cls = "RagSearchOutput" /\ Has(out, "results")) =>
           \A i \in DOMAIN out.results : Has(out.results[i], "doc_id")

\* model_cls.parse_obj(out) of a valid out, as the dict model_dump() gives
\* of it: the declared fields supplied, the defaults of those not supplied,
\* the undeclared ones only where the model allows extras
RECURSIVE parse_obj(_, _)
parse_obj(model_cls, out) ==
    LET f == ModelFields(model_cls)
        declared == f.scalars \cup f.lists \cup f.dicts
        kept == {k \in DOMAIN out \ {"nulls"} : f.extra \/ k \in declared}
        given_null == {k \in (IF "nulls" \in DOMAIN out THEN out.nulls ELSE {}) :
                         f.extra \/ k \in declared}
        defaulted == (f.lists \cup f.dicts) \ (kept \cup given_null)
        value(k) == IF NestedModel(model_cls, k) # NONE
                    THEN [i \in DOMAIN out[k] |-> parse_obj(NestedModel(model_cls, k), out[k][i])]
                    ELSE out[k]
    IN  [k \in kept \cup defaulted \cup {"nulls"} |->
            IF k = "nulls" THEN (f.scalars \ kept) \cup given_null
            ELSE IF k \in kept THEN value(k)
            ELSE IF k \in f.lists THEN <<>>
            ELSE EmptyDict]

\* values.get("output", {}) or {}
ToolCallOutput(tc) ==
    IF "output" \in DOMAIN tc /\ Truthy(tc.output) THEN tc.output ELSE EmptyDict

\* a tool_calls entry every tool name passes for
ToolCallValidAnyTool(tc) ==
    SchemaValid(ToolOutputModel(tc.tool), ToolCallOutput(tc))

\* whether a tool_calls entry validates as a ToolCall
ToolCallValid(tc) ==
    /\ "tool" \in DOMAIN tc /\ tc.tool \in ToolNameLiteral
    /\ SchemaValid(ToolOutputModel(tc.tool), ToolCallOutput(tc))

\* the ToolCall of a valid entry: the output parsed by its strict model; a
\* tool without a strict model keeps its output as given
ParseToolCall(tc) ==
    [tool |-> tc.tool,
     output |-> IF ToolOutputModel(tc.tool) = NONE THEN ToolCallOutput(tc)
                ELSE parse_obj(ToolOutputModel(tc.tool), ToolCallOutput(tc))]

\* the caller's tool_calls entry once validate_and_parse_output has run on
\* it: the pre root validator is handed the entry itself and assigns
\* values["output"], the instance of the strict model (or the output, {}
\* for a falsy one, of a tool without a model); an entry whose output fails
\* its schema is left as it was
ValidatedToolCallRecord(tc) ==
    LET model_cls == ToolOutputModel(tc.tool)
        out == ToolCallOutput(tc)
        assigned == IF model_cls = NONE THEN out
                    ELSE [py |-> "model", cls |-> model_cls, fields |-> parse_obj(model_cls, out)]
    IN  IF model_cls # NONE /\ ~SchemaValid(model_cls, out) THEN tc
        ELSE [k \in DOMAIN tc \cup {"output"} |-> IF k = "output" THEN assigned ELSE tc[k]]

\* the caller's payload once model_validate has visited its tool_calls
PayloadAfterValidation(raw) ==
    IF "tool_calls" \in DOMAIN raw /\ raw.tool_calls.py = "list"
    THEN [raw EXCEPT !.tool_calls.elems =
             [i \in DOMAIN raw.tool_calls.elems |->
                 ValidatedToolCallRecord(raw.tool_calls.elems[i])]]
    ELSE raw

\* whether ActIntentModel.model_validate(raw_payload) succeeds
ActIntentValid(raw) ==
    /\ "intent" \in DOMAIN raw /\ raw.intent.py = "str"
    /\ "decision_template" \in DOMAIN raw /\ raw.decision_template.py = "str"
    /\ "tool_calls" \in DOMAIN raw /\ raw.tool_calls.py = "list"
    /\ \A i \in DOMAIN raw.tool_calls.elems : ToolCallValid(raw.tool_calls.elems[i])

\* ActIntentModel.model_validate(raw_payload) of a valid payload; the extra
\* fields the handlers read off the intent are kept (extra = "allow")
model_validate(raw) ==
    [intent |-> raw.intent.s,
     decision_template |-> raw.decision_template.s,
     tool_calls |-> [i \in DOMAIN raw.tool_calls.elems |-> ParseToolCall(raw.tool_calls.elems[i])],
     facts |-> IF "facts" \in DOMAIN raw THEN raw.facts ELSE <<>>,
     crop_stage |-> IF "crop_stage" \in DOMAIN raw THEN raw.crop_stage ELSE NONE,
     pest |-> IF "pest" \in DOMAIN raw THEN raw.pest ELSE NONE,
     lookahead_days |-> IF "lookahead_days" \in DOMAIN raw THEN <<raw.lookahead_days>> ELSE <<>>,
     trend_window_days |-> IF "trend_window_days" \in DOMAIN raw
                           THEN <<raw.trend_window_days>> ELSE <<>>,
     days_to_harvest |-> IF "days_to_harvest" \in DOMAIN raw
                         THEN <<raw.days_to_harvest>> ELSE <<>>]

(***************************************************************************)
(* utils/helpers.py: build_facts_from_toolcalls                            *)
(***************************************************************************)

\* what one pass of the loop stores for the entry tc at index idx (from 0):
\* the tool name and the dumped output of an entry that parses as a
\* ToolCall; else, best effort, the entry's "tool" or "name" (or tool_<idx>)
\* and its raw "output" or "result", wrapped as {"value": ...} when it is
\* no dict
FactOfToolCall(tc, idx) ==
    LET get(k) == IF k \in DOMAIN tc THEN tc[k] ELSE NoValue
        name(k) == IF k \in DOMAIN tc THEN tc[k] ELSE NONE
        tool_name == StrOr(name("tool"), name("name"))
        raw_out == IF Truthy(get("output")) THEN get("output")
                   ELSE IF Truthy(get("result")) THEN get("result")
                   ELSE EmptyDict
    IN  IF ToolCallValid(tc)
        THEN [tool |-> tc.tool, out |-> ParseToolCall(tc).output]
        ELSE [tool |-> IF StrTruthy(tool_name) THEN tool_name ELSE "tool_" \o ToString(idx),
              out |-> IF IsDict(raw_out) THEN raw_out ELSE [value |-> raw_out]]

\* the loop with "facts[tool_name] = ..." done only for a name not yet in
\* facts
RECURSIVE build_facts_first_wins(_)
build_facts_first_wins(tool_calls) ==
    IF tool_calls = <<>> THEN <<>>
    ELSE LET n == Len(tool_calls)
             fm == build_facts_first_wins(SubSeq(tool_calls, 1, n - 1))
             f == FactOfToolCall(tool_calls[n], n - 1)
         IN  IF FactsHas(fm, f.tool) THEN fm ELSE FactsSet(fm, f.tool, f.out)

\* build_facts_from_toolcalls(tool_calls): the loop, one assignment
\* facts[tool_name] = ... per entry, in the order of the list
RECURSIVE build_facts_from_toolcalls(_)
build_facts_from_toolcalls(tool_calls) ==
    IF tool_calls = <<>> THEN <<>>
    ELSE LET n == Len(tool_calls)
             fm == build_facts_from_toolcalls(SubSeq(tool_calls, 1, n - 1))
             f == FactOfToolCall(tool_calls[n], n - 1)
         IN  FactsSet(fm, f.tool, f.out)

(***************************************************************************)
(* orchestrator.py: process_act_intent                                     *)
(***************************************************************************)

HANDLER_MAP ==
    {"irrigation_decision", "variety_selection", "temperature_risk", "market_advice",
     "pesticide_advice"}

\* the overlay loop with the test reversed: a fact a tool call gave is kept
RECURSIVE OverlayKeepsToolCall(_, _)
OverlayKeepsToolCall(fm, explicit_facts) ==
    IF explicit_facts = <<>> THEN fm
    ELSE OverlayKeepsToolCall(
             IF FactsHas(fm, Head(explicit_facts).tool) THEN fm
             ELSE FactsSet(fm, Head(explicit_facts).tool, Head(explicit_facts).out),
             Tail(explicit_facts))

\* for k, v in explicit_facts.items(): facts[k] = v
RECURSIVE OverlayFacts(_, _)
OverlayFacts(fm, explicit_facts) ==
    IF explicit_facts = <<>> THEN fm
    ELSE OverlayFacts(FactsSet(fm, Head(explicit_facts).tool, Head(explicit_facts).out),
                      Tail(explicit_facts))

\* the results handler(intent=act, facts=facts) can give: a dict, or the
\* exception it raises.  market_advice's confidence is any of ConfLevels.
HandlerOutcomes(intent, fm) ==
    CASE intent.intent = "irrigation_decision" -> {irrigation_handle(intent, fm)}
      [] intent.intent = "variety_selection" -> {variety_handle(intent, fm)}
      [] intent.intent = "temperature_risk" -> {temperature_handle(intent, fm)}
      [] intent.intent = "market_advice" ->
             {market_handle(intent, fm, conf) : conf \in ConfLevels}
      [] intent.intent = "pesticide_advice" -> {pesticide_handle(intent, fm)}

\* facts once handler(intent=act, facts=facts) has returned: variety
\* selection without a variety_lookup writes a crop_name into every crop of
\* a calendar given as a name-to-crop mapping; no other handler assigns
\* into facts
FactsAfterHandler(intent, fm) ==
    LET variety_out == FactsGet(fm, "variety_lookup")
        calendar_key == IF Truthy(FactsGet(fm, "calendar_lookup"))
                        THEN "calendar_lookup" ELSE "calendar"
        calendar_out == FactsGet(fm, calendar_key)
    IN  IF /\ intent.intent = "variety_selection"
           /\ ~Truthy(variety_out) /\ ReadsCalendarMapping(calendar_out)
        THEN FactsSet(fm, calendar_key,
                      [calendar_out EXCEPT !.calendar = NamedCalendarMapping(calendar_out.calendar)])
        ELSE fm

\* the caller's payload when the values of its facts overlay are the
\* objects facts holds (the overlay's keys win, and its values are not
\* copied)
PayloadSharingFacts(raw, fm) ==
    IF "facts" \in DOMAIN raw
    THEN [raw EXCEPT !.facts = [i \in DOMAIN raw.facts |->
                                   [tool |-> raw.facts[i].tool,
                                    out |-> FactsGet(fm, raw.facts[i].tool)]]]
    ELSE raw

IsRaised(outcome) == ~IsDict(outcome) /\ outcome.py = "raise"

\* the except branch's dict with a neutral confidence in place of zero
HandlerErrorResultNeutral(exc) ==
    [nulls |-> {"action"}, items |-> <<>>, handler_confidence |-> <<One \div 2>>,
     confidence |-> <<One \div 2>>, notes |-> "handler error: " \o exc]

\* the dict the except branch of the handler invocation builds
HandlerErrorResult(exc) ==
    [nulls |-> {"action"}, items |-> <<>>, handler_confidence |-> <<0>>,
     confidence |-> <<0>>, notes |-> "handler error: " \o exc]

\* _normalize_items(items): every item gets a float score, 0.0 for None; the
\* score is not clamped
normalize_items(items) ==
    [i \in DOMAIN items |->
        [items[i] EXCEPT !.score = IF items[i].score = <<>> THEN <<0>> ELSE items[i].score]]

\* the setdefault calls and the items normalisation that follow the
\* invocation
CanonicalResult(r) ==
    LET absent == {"action", "handler_confidence", "confidence"} \ KeysOf(r)
    IN  [k \in DOMAIN r \cup {"nulls"} |->
            IF k = "nulls" THEN (IF "nulls" \in DOMAIN r THEN r.nulls ELSE {}) \cup absent
            ELSE IF k = "items" THEN normalize_items(r.items)
            ELSE r[k]]

\* final_handler_conf of step 7: the handler's handler_confidence, else
\* compute_confidence(signals=handler_result, prov_entries=...)
final_handler_conf(r) ==
    IF Has(r, "handler_confidence") THEN r.handler_confidence[1]
    ELSE compute_confidence([NoSignals EXCEPT !.n_items = Len(r.items)], <<>>, <<>>)

\* d[k] = v
DictSet(d, k, v) ==
    [x \in DOMAIN d \cup {k, "nulls"} |->
        IF x = k THEN v
        ELSE IF x = "nulls" THEN (IF "nulls" \in DOMAIN d THEN d.nulls ELSE {}) \ {k}
        ELSE d[x]]

\* the probabilistic OR with the handler's confidence counted twice
overall_confidence_twice(r) ==
    LET c == Max(0, Min(One, r.confidence[1]))
    IN  One - ((One - c) * (One - c)) \div One

\* step 8 with a confidence that depends on the wall clock: it is divided by
\* the reading of datetime.now the response is stamped with
overall_confidence_by_clock(r) ==
    LET c == Max(0, Min(One, r.confidence[1]))
    IN  IF IsDict(fn_in) THEN c \div fn_in.now ELSE c

\* step 8: the probabilistic OR over the one handler's confidence
overall_confidence(r) == One - (One - Max(0, Min(One, r.confidence[1])))

\* the response of the invalid_input return
InvalidInputResponse ==
    [status |-> "invalid_input", nulls |-> {"result", "source_id", "source_type"},
     provenance |-> <<>>, confidence |-> 0, missing |-> <<>>,
     error |-> "invalid_act_intent"]

\* the response of the handler_not_found return
HandlerNotFoundResponse(a) ==
    [intent |-> a.intent, status |-> "handler_not_found",
     nulls |-> {"result", "source_id", "source_type"},
     provenance |-> <<>>, confidence |-> 0, missing |-> <<>>,
     error |-> "unknown_intent"]

\* step 9: final_response, and whether DecisionResponseModel accepts it (a
\* result whose action is None fails DecisionResult.action: str; the dict is
\* then returned as built, with _validation_error set)
FinalResponse(a, r, prov) ==
    [intent |-> a.intent, status |-> "complete",
     result |-> [action |-> GetStr(r, "action"), items |-> r.items,
                 confidence |-> overall_confidence(r), notes |-> r.notes],
     provenance |-> prov, confidence |-> overall_confidence(r), missing |-> <<>>,
     nulls |-> {"source_id", "source_type"},
     validation_error |-> ~Has(r, "action")]

\* ---- the payloads drawn ----

\* largest number of tool_calls entries drawn
MaxToolCalls == 2

\* tool_calls entries drawn: a weather outlook as parallel arrays (tenths of
\* a degree, mm) that carries a field the schema does not declare; a
\* calendar with a named crop; a calendar whose crop has no crop_name; a
\* pesticide label; a price history; a weather outlook whose lat is no
\* number; a tool the schema does not know
ToolCallCatalogue ==
    { [tool |-> "weather_outlook",
       output |-> [time |-> <<1, 2>>, tmin_c |-> <<0 - 10, 50>>, tmax_c |-> <<300, 400>>,
                   rain_mm |-> <<0, 12>>, source_type |-> "government",
                   provider |-> "imd"]],
      [tool |-> "calendar_lookup",
       output |-> [crops |-> << [crop_name |-> "wheat", season |-> "rabi"] >>,
                   source_id |-> "icar_calendar", current_stage |-> "flowering"]],
      [tool |-> "calendar_lookup",
       output |-> [crops |-> << [season |-> "kharif"] >>, state |-> "Punjab"]],
      [tool |-> "pesticide_lookup",
       output |-> [active_ingredient |-> "imidacloprid", phi_days |-> 7,
                   source_type |-> "vendor"]],
      [tool |-> "prices_fetch",
       output |-> [price_history |-> PriceRecords(<<60, 66>>, "ascending"),
                   commodity |-> "wheat", source_id |-> "agmarknet"]],
      [tool |-> "weather_outlook",
       output |-> [lat |-> Str("north"), time |-> <<1>>, tmin_c |-> <<50>>]],
      [tool |-> "soil_moisture_probe", output |-> [soil_moisture_pct |-> 20]] }

ToolCallLists ==
    UNION { [1 .. n -> ToolCallCatalogue] : n \in 0 .. MaxToolCalls }

\* facts of the overlay: a dry forecast with a frost night, a rainy one, a
\* calendar with crops and stages, a calendar that is a list, one without
\* crops, a variety list with a market preference of 5.0, a price history, a
\* product list, a calendar given as a name-to-crop mapping, a soil sample,
\* a forecast that names its provider and no source_type
DryForecast ==
    [tool |-> "weather_outlook",
     out |-> [forecast |-> << [date |-> 1, t_min |-> 0 - 10, t_max |-> 300, rain_mm |-> 0],
                              [date |-> 2, t_min |-> 50, t_max |-> 310, rain_mm |-> 2] >>,
              source_id |-> "imd", source_type |-> "government", confidence |-> 9000]]
RainyForecast ==
    [tool |-> "weather_outlook",
     out |-> [forecast |-> << [date |-> 1, t_min |-> 150, t_max |-> 420, rain_mm |-> 8],
                              [date |-> 2, t_min |-> 160, t_max |-> 300, rain_mm |-> 4] >>,
              source_id |-> "imd", source_type |-> "government"]]
CropCalendar ==
    [tool |-> "calendar_lookup",
     out |-> [crops |-> << [crop_name |-> "wheat"], [crop_name |-> "mustard"] >>,
              current_stage |-> "flowering", typical_maturity_days |-> 100,
              critical_stages |-> [flowering |-> "high"],
              frost_threshold |-> 30,
              source_id |-> "icar_calendar", source_type |-> "research_institute"]]
ListCalendar ==
    [tool |-> "calendar_lookup", out |-> [py |-> "list", elems |-> <<"rabi">>]]
BareCalendar ==
    [tool |-> "calendar_lookup", out |-> [state |-> "Punjab", days_to_harvest |-> 0]]
VarietyList ==
    [tool |-> "variety_lookup",
     out |-> [varieties |-> << [name |-> "hd_2967", maturity_days |-> 110,
                                market_preference_score |-> 5 * One],
                               [name |-> "pbw_343", maturity_days |-> 100,
                                market_preference_score |-> 6000],
                               [name |-> "local"] >>,
              source_id |-> "seednet", source_type |-> "seed_catalog"]]
PriceHistory ==
    [tool |-> "prices_fetch",
     out |-> [price_history |-> PriceRecords(<<60, 66, 68>>, "ascending"),
              source_id |-> "agmarknet", source_type |-> "market_portal"]]
ProductList ==
    [tool |-> "pesticide_lookup",
     out |-> [products |-> << [name |-> "product_a", phi_days |-> 7],
                              [name |-> "product_b", phi_days |-> 3,
                               target_pests |-> <<"aphid">>] >>]]
MappingCalendar ==
    [tool |-> "calendar_lookup",
     out |-> [calendar |-> [wheat |-> [season |-> "rabi"]], typical_maturity_days |-> 110]]
SoilSample ==
    [tool |-> "soil", out |-> [soil_moisture_pct |-> 20, confidence |-> 7000]]
ProviderForecast ==
    [tool |-> "weather_outlook",
     out |-> [forecast |-> << [date |-> 1, t_min |-> 150, t_max |-> 300, rain_mm |-> 6],
                              [date |-> 2, t_min |-> 160, t_max |-> 310, rain_mm |-> 6] >>,
              source |-> "imd_portal", provider |-> "imd"]]

\* the facts overlays drawn
Overlays ==
    { <<>>,
      <<DryForecast>>, <<RainyForecast>>, <<CropCalendar>>, <<VarietyList>>,
      <<DryForecast, CropCalendar>>, <<RainyForecast, CropCalendar>>,
      <<DryForecast, ListCalendar>>, <<DryForecast, CropCalendar, SoilSample>>,
      <<DryForecast, BareCalendar>>,
      <<VarietyList, CropCalendar>>, <<PriceHistory>>, <<ProductList, BareCalendar>>,
      <<MappingCalendar>>, <<ProviderForecast, CropCalendar>> }

PayloadIntents == {Str(i) : i \in HANDLER_MAP \cup {"credit_policy_match"}}
PayloadToolCalls == {[py |-> "list", elems |-> tcs] : tcs \in ToolCallLists}
PayloadStages == {"flowering"}

\* the payloads drawn: well-typed ones with and without an overlay and a
\* crop_stage (their tool_calls may still fail validation); ones without an
\* intent; ones whose decision_template is a number; ones without
\* tool_calls or whose tool_calls is a string
Payloads ==
    LET D == {Str("standard")}
    IN  [intent : PayloadIntents, decision_template : D, tool_calls : PayloadToolCalls,
         facts : Overlays]
        \cup [intent : PayloadIntents, decision_template : D, tool_calls : PayloadToolCalls,
              facts : Overlays, crop_stage : PayloadStages]
        \cup [decision_template : D, tool_calls : PayloadToolCalls]
        \cup [intent : PayloadIntents, decision_template : {PyInt},
              tool_calls : PayloadToolCalls]
        \cup [intent : PayloadIntents, decision_template : D]
        \cup [intent : PayloadIntents, decision_template : D, tool_calls : {Str("none")}]

Init ==
    /\ pc = "validate"
    /\ payload \in Payloads /\ raw_payload = payload
    /\ act = NoValue /\ facts = <<>> /\ fact_prov = <<>>
    /\ handler_result = NoValue /\ merged_prov = <<>> /\ response = NoValue
    /\ fn_in = NoValue /\ fn_out = NoValue

\* step 1, the payload validates
Validate ==
    /\ pc = "validate" /\ ActIntentValid(payload)
    /\ act' = model_validate(payload)
    /\ raw_payload' = PayloadAfterValidation(raw_payload)
    /\ pc' = "build_facts"
    /\ UNCHANGED <<payload, facts, fact_prov, handler_result, merged_prov, response, fn_vars>>

\* step 1, ValidationError: the invalid_input return
RejectInvalid ==
    /\ pc = "validate" /\ ~ActIntentValid(payload)
    /\ response' = InvalidInputResponse
    /\ raw_payload' = PayloadAfterValidation(raw_payload)
    /\ pc' = "done"
    /\ UNCHANGED <<payload, act, facts, fact_prov, handler_result, merged_prov, fn_vars>>

\* step 2: facts from the tool calls, then the overlay
BuildFacts ==
    /\ pc = "build_facts"
    /\ facts' = OverlayFacts(build_facts_from_toolcalls(act.tool_calls), act.facts)
    /\ pc' = "extract_provenance"
    /\ UNCHANGED <<payload, raw_payload, act, fact_prov, handler_result, merged_prov, response, fn_vars>>

\* step 3
ExtractProvenance ==
    /\ pc = "extract_provenance"
    /\ fact_prov' = extract_provenance_from_facts(facts)
    /\ pc' = "find_handler"
    /\ UNCHANGED <<payload, raw_payload, act, facts, handler_result, merged_prov, response, fn_vars>>

\* step 4, a handler is registered for the intent
FindHandler ==
    /\ pc = "find_handler" /\ act.intent \in HANDLER_MAP
    /\ pc' = "invoke_handler"
    /\ UNCHANGED <<payload, raw_payload, act, facts, fact_prov, handler_result, merged_prov, response,
                   fn_vars>>

\* step 4, none is: the handler_not_found return
HandlerNotFound ==
    /\ pc = "find_handler" /\ act.intent \notin HANDLER_MAP
    /\ response' = HandlerNotFoundResponse(act)
    /\ pc' = "done"
    /\ UNCHANGED <<payload, raw_payload, act, facts, fact_prov, handler_result, merged_prov, fn_vars>>

\* step 5 and the canonical keys: the handler's dict, or the error dict of
\* the except branch; what the handler wrote into facts stays written, in
\* the caller's payload too
InvokeHandler ==
    /\ pc = "invoke_handler"
    /\ \E outcome \in HandlerOutcomes(act, facts) :
          handler_result' = CanonicalResult(IF IsRaised(outcome)
                                            THEN HandlerErrorResult(outcome.exc)
                                            ELSE outcome)
    /\ facts' = FactsAfterHandler(act, facts)
    /\ raw_payload' = PayloadSharingFacts(raw_payload, facts')
    /\ pc' = "merge_provenance"
    /\ UNCHANGED <<payload, act, fact_prov, merged_prov, response, fn_vars>>

\* step 6: the handlers give no provenance of their own
MergeProvenance ==
    /\ pc = "merge_provenance"
    /\ merged_prov' = prioritize_provenance(merge_provenance(<<>>, facts))
    /\ pc' = "confidence"
    /\ UNCHANGED <<payload, raw_payload, act, facts, fact_prov, handler_result, response, fn_vars>>

\* step 7
ComputeConfidence ==
    /\ pc = "confidence"
    /\ handler_result' = DictSet(handler_result, "confidence",
                                 <<Max(0, Min(One, final_handler_conf(handler_result)))>>)
    /\ pc' = "respond"
    /\ UNCHANGED <<payload, raw_payload, act, facts, fact_prov, merged_prov, response, fn_vars>>

\* steps 8 and 9
Respond ==
    /\ pc = "respond"
    /\ response' = FinalResponse(act, handler_result, merged_prov)
    /\ pc' = "done"
    /\ UNCHANGED <<payload, raw_payload, act, facts, fact_prov, handler_result, merged_prov, fn_vars>>

Next ==
    \/ Validate \/ RejectInvalid \/ BuildFacts \/ ExtractProvenance \/ FindHandler
    \/ HandlerNotFound \/ InvokeHandler \/ MergeProvenance \/ ComputeConfidence \/ Respond

Spec == Init /\ [][Next]_vars

\* C1: for every valid payload whose intent has a registered handler, if the
\* handler raises, process_act_intent still returns a response: its result
\* has no items, result.confidence and the top-level confidence are both
\* 0.0, and the note is the non-empty "handler error: ..." explanation.
C1_HandlerFailureIsZeroConfidence ==
    (/\ pc = "done" /\ ActIntentValid(payload) /\ act.intent \in HANDLER_MAP
     /\ \E outcome \in HandlerOutcomes(act, facts) : IsRaised(outcome))
    => /\ response.status = "complete"
       /\ response.result.items = <<>>
       /\ response.result.confidence = 0
       /\ response.confidence = 0
       /\ response.result.notes \notin {"", NONE}
       /\ response.result.notes = handler_result.notes

\* a handler raised (irrigation on a calendar that is a list, or variety
\* selection on a calendar crop without a name) and the response is out
C1_Witness ==
    /\ pc = "done" /\ ActIntentValid(payload) /\ act.intent \in HANDLER_MAP
    /\ \E outcome \in HandlerOutcomes(act, facts) : IsRaised(outcome)
    /\ response.result.notes = "handler error: AttributeError"

\* the payload fails ActIntent validation: a missing or wrong-typed intent,
\* decision_template or tool_calls, an entry naming an unknown tool, or an
\* entry whose output has a wrong-typed field
C2_FailsValidation ==
    \/ "intent" \notin DOMAIN payload
    \/ payload.intent.py # "str"
    \/ payload.decision_template.py # "str"
    \/ "tool_calls" \notin DOMAIN payload
    \/ payload.tool_calls.py # "list"
    \/ \E i \in DOMAIN payload.tool_calls.elems :
          LET tc == payload.tool_calls.elems[i]
          IN  \/ tc.tool \notin ToolNameLiteral
              \/ (tc.tool = "weather_outlook" /\ "lat" \in DOMAIN tc.output
                  /\ tc.output.lat.py # "float")

C4_MissingListPassedOn ==
    (pc = "done" /\ response.status = "complete"
     /\ GetStr(handler_result, "action") = "require_more_info")
    => /\ response.result.action = "require_more_info"
       /\ Range(response.missing) = Range(handler_result.missing)

\* the part of C4 the code keeps: status complete and the action passed on
C4_ActionPassedOn ==
    (pc = "done" /\ response.status = "complete"
     /\ GetStr(handler_result, "action") = "require_more_info")
    => response.result.action = "require_more_info"

\* a handler asked for inputs by name and the response is out
C4_Witness ==
    /\ pc = "done" /\ response.status = "complete"
    /\ GetStr(handler_result, "action") = "require_more_info"
    /\ handler_result.missing # <<>>

\* C5 (as stated): in every response with a result, result.confidence lies
\* in [0, 1] and so does the score of every item.
C5_ConfidenceAndScoresInUnitInterval ==
    (pc = "done" /\ response.status = "complete")
    => /\ 0 <= response.result.confidence /\ response.result.confidence <= One
       /\ \A i \in DOMAIN response.result.items :
             /\ 0 <= response.result.items[i].score[1]
             /\ response.result.items[i].score[1] <= One

\* the part of C5 the code keeps: both confidences lie in [0, 1]
C5_ConfidenceInUnitInterval ==
    (pc = "done" /\ response.status = "complete")
    => /\ 0 <= response.result.confidence /\ response.result.confidence <= One
       /\ 0 <= response.confidence /\ response.confidence <= One

\* a variety whose declared market preference is 5.0 has been ranked
C5_Witness ==
    /\ pc = "done" /\ response.status = "complete"
    /\ response.result.action = "variety_ranked_list"
    /\ \E i \in DOMAIN response.result.items : response.result.items[i].name = "hd_2967"

\* the tools the payload's tool_calls name, and the output the last call of
\* a tool gives once its strict model has parsed it
C9_CalledTools == {payload.tool_calls.elems[i].tool : i \in DOMAIN payload.tool_calls.elems}
C9_LastCallOutput(t) ==
    LET elems == payload.tool_calls.elems
        last == CHOOSE i \in DOMAIN elems :
                   elems[i].tool = t /\ \A j \in DOMAIN elems : j > i => elems[j].tool # t
    IN  ParseToolCall(elems[last]).output
\* the facts overlay of the caller's payload, as it is now
C9_OverlayOf == IF "facts" \in DOMAIN raw_payload THEN raw_payload.facts ELSE <<>>

\* C9: once facts are built, and so when the handler is invoked, facts[T] is
\* the overlay's value B for every key T of the overlay, a tool call for T
\* or not; a tool only tool_calls name keeps the output its call gave (as
\* parsed by the tool's model); and facts has no other key.
C9_OverlayWins ==
    (pc \notin {"validate", "build_facts"} /\ ActIntentValid(payload))
    => /\ \A t \in FactKeys(C9_OverlayOf) : FactsGet(facts, t) = FactsGet(C9_OverlayOf, t)
       /\ \A t \in C9_CalledTools \ FactKeys(C9_OverlayOf) :
             FactsGet(facts, t) = C9_LastCallOutput(t)
       /\ FactKeys(facts) = C9_CalledTools \cup FactKeys(C9_OverlayOf)

\* the handler is about to be invoked on a payload that carries a tool call
\* for weather_outlook and a different overlay entry for it, and a tool call
\* the overlay does not name
C9_Witness ==
    /\ pc = "invoke_handler"
    /\ "weather_outlook" \in C9_CalledTools \cap FactKeys(C9_OverlayOf)
    /\ C9_LastCallOutput("weather_outlook") # FactsGet(C9_OverlayOf, "weather_outlook")
    /\ FactsGet(facts, "weather_outlook") = FactsGet(C9_OverlayOf, "weather_outlook")
    /\ C9_CalledTools \ FactKeys(C9_OverlayOf) # {}

(***************************************************************************)
(* The handlers on a complete facts map with one required tool removed     *)
(***************************************************************************)

\* required_tools of INTENT_ROUTING, for the intents with a handler
INTENT_ROUTING ==
    [irrigation_decision |-> <<"weather_outlook", "calendar_lookup">>,
     variety_selection |-> <<"variety_lookup", "calendar_lookup">>,
     temperature_risk |-> <<"weather_outlook", "calendar_lookup">>,
     market_advice |-> <<"prices_fetch">>,
     pesticide_advice |-> <<"pesticide_lookup">>]

\* facts as tool calls give them: the parsed outputs of the catalogue
ParsedFact(tc) == [tool |-> tc.tool, out |-> ParseToolCall(tc).output]
ParsedCatalogue == {ParsedFact(tc) : tc \in {c \in ToolCallCatalogue : ToolCallValid(c)}}

\* the facts drawn for a tool
FactsOfTool(t) ==
    {f \in {DryForecast, RainyForecast, CropCalendar, ListCalendar, BareCalendar,
            VarietyList, PriceHistory, ProductList} \cup ParsedCatalogue : f.tool = t}

\* the complete facts maps drawn for a handler: a fact for each required
\* tool in the order of the list, with or without a soil sample
CompleteFacts(h) ==
    LET req == INTENT_ROUTING[h]
        required == {fm \in [DOMAIN req -> UNION {FactsOfTool(req[i]) : i \in DOMAIN req}] :
                        \A i \in DOMAIN req : fm[i].tool = req[i]}
    IN  required \cup {fm \o <<SoilSample>> : fm \in required}

\* del facts[k]
FactsWithout(fm, k) ==
    LET Other(f) == f.tool # k
    IN  SelectSeq(fm, Other)

\* an intent that names the handler and at most a crop stage
HandlerIntent(h, stage) ==
    [intent |-> h, decision_template |-> "standard", tool_calls |-> <<>>, facts |-> <<>>,
     crop_stage |-> stage, pest |-> NONE, lookahead_days |-> <<>>,
     trend_window_days |-> <<>>, days_to_harvest |-> <<>>]

HandlersInit ==
    /\ pc = "handle"
    /\ fn_in \in UNION { [intent : {HandlerIntent(h, stage) : stage \in {NONE, "flowering"}},
                          facts : CompleteFacts(h),
                          removed : Range(INTENT_ROUTING[h]) \cup {NONE}]
                         : h \in HANDLER_MAP }
    /\ fn_out = NoValue
    /\ OrchIdle

\* the handler of the intent, called on the facts without the removed tool
HandleCall ==
    /\ pc = "handle"
    /\ \E outcome \in HandlerOutcomes(fn_in.intent, FactsWithout(fn_in.facts, fn_in.removed)) :
          fn_out' = outcome
    /\ pc' = "done"
    /\ UNCHANGED <<fn_in, orch_vars>>

HandlersNext == HandleCall

SpecHandlers == HandlersInit /\ [][HandlersNext]_vars

\* the crops of the calendar_lookup fact of the input
C3_CalendarCrops ==
    LET calendar == FactsGet(fn_in.facts, "calendar_lookup")
    IN  IF Has(calendar, "crops") THEN calendar.crops ELSE <<>>

\* the handler asks for the removed tool by name
C3_AsksForRemoved ==
    /\ IsDict(fn_out)
    /\ fn_out.action = "require_more_info"
    /\ fn_in.removed \in Range(fn_out.missing)

C11_NotFoundBeforeFactBuilding ==
    [][(BuildFacts \/ ExtractProvenance) => act.intent \in HANDLER_MAP]_vars

\* what does hold of such a run: the handler_not_found response is the
\* literal of the return statement, it holds nothing of the facts built, and
\* no handler has been invoked.
C11_NotFoundResponseIgnoresFacts ==
    (pc = "done" /\ act # NoValue /\ act.intent \notin HANDLER_MAP)
    => /\ response = HandlerNotFoundResponse(act)
       /\ handler_result = NoValue /\ merged_prov = <<>>

\* the handler_not_found response is out, and facts and their provenance
\* were built on the way
C11_Witness ==
    /\ pc = "done" /\ response.status = "handler_not_found"
    /\ facts # <<>> /\ fact_prov # <<>>

ALLOWED_STATUSES == {"complete", "incomplete", "invalid_input", "handler_not_found"}

\* C12 (as stated): every response process_act_intent returns, on every
\* path, has a status among ALLOWED_STATUSES and a result whose items field
\* is a list (possibly empty).
C12_StatusAllowedAndItemsAList ==
    pc = "done"
    => /\ response.status \in ALLOWED_STATUSES
       /\ Has(response, "result")
       /\ DOMAIN response.result.items = 1 .. Len(response.result.items)

\* what does hold: the status is always among ALLOWED_STATUSES; a complete
\* response (a handler error included) has a result whose items is a list;
\* an invalid_input or handler_not_found response has result None.
C12_StatusAllowedAndItemsAListWhenComplete ==
    pc = "done"
    => /\ response.status \in ALLOWED_STATUSES
       /\ IF response.status = "complete"
          THEN /\ Has(response, "result")
               /\ DOMAIN response.result.items = 1 .. Len(response.result.items)
          ELSE HasKey(response, "result") /\ ~Has(response, "result")

\* an invalid_input response is out: its result is None
C12_Witness ==
    /\ pc = "done" /\ response.status = "invalid_input"
    /\ "result" \in response.nulls

ConfOutputs ==
    { [temperature |-> 300], [confidence |-> 9000], [conf |-> 5 * One],
      [score |-> 80 * One], [confidence |-> 0 - One],
      [confidence |-> 0, score |-> 6000], NoValue }

\* largest number of facts drawn
MaxConfFacts == 2

\* the facts maps of at most MaxConfFacts tools, in every insertion order
ConfFacts ==
    LET tools == {"weather_outlook", "calendar_lookup", "prices_fetch"}
    IN  UNION { { fm \in [1 .. n -> [tool : tools, out : ConfOutputs]] :
                    \A i, j \in 1 .. n : i # j => fm[i].tool # fm[j].tool }
                : n \in 0 .. Min(MaxConfFacts, Cardinality(tools)) }

\* signals drawn: each absent, inside [0, 1], above or below it; required
\* tools: none, one, two
ConfidenceInit ==
    /\ pc = "compute_confidence"
    /\ fn_in \in [signals : [handler_confidence : {<<>>, <<0>>, <<7500>>, <<One>>,
                                                    <<3 * One>>, <<0 - 5000>>},
                             items_mean_score : {<<>>, <<6000>>, <<2 * One>>},
                             facts_mean_confidence : {<<>>, <<8000>>},
                             n_items : {0, 3}],
                  facts : ConfFacts,
                  required_tools : {<<>>, <<"weather_outlook">>,
                                    <<"weather_outlook", "calendar_lookup">>}]
    /\ fn_out = NoValue
    /\ OrchIdle

ComputeConfidenceCall ==
    /\ pc = "compute_confidence"
    /\ fn_out' = compute_confidence(fn_in.signals, fn_in.facts, fn_in.required_tools)
    /\ pc' = "done"
    /\ UNCHANGED <<fn_in, orch_vars>>

SpecConfidence == ConfidenceInit /\ [][ComputeConfidenceCall]_vars

\* the call takes the fallback path: no required tool is missing, no named
\* signal is present, and facts hold a per-tool confidence
C14_FallbackPath ==
    /\ \A i \in DOMAIN fn_in.required_tools : FactsHas(fn_in.facts, fn_in.required_tools[i])
    /\ fn_in.signals.handler_confidence = <<>>
    /\ fn_in.signals.items_mean_score = <<>>
    /\ fn_in.signals.facts_mean_confidence = <<>>
    /\ ToolConfs(fn_in.facts) # <<>>

\* C14 (as stated): for every combination of signals, facts and
\* required_tools, compute_confidence returns a value in [0, 1], the path
\* that returns the mean of the per-tool confidence fields included.
C14_ResultInUnitInterval ==
    pc = "done" => (0 <= fn_out /\ fn_out <= One)

\* what does hold: the result is in [0, 1] on every path but the fallback
\* one, where it is the mean of the per-tool fields as they are
C14_ResultInUnitIntervalOffFallback ==
    pc = "done"
    => IF C14_FallbackPath
       THEN fn_out = RoundDiv(SumSeq(ToolConfs(fn_in.facts)), Len(ToolConfs(fn_in.facts)))
       ELSE 0 <= fn_out /\ fn_out <= One

\* the fallback path returned the mean of a conf of 5.0 and a confidence
\* of 0.9
C14_Witness ==
    /\ pc = "done" /\ C14_FallbackPath
    /\ Len(fn_in.facts) = 2 /\ fn_out > One
    /\ \E i \in DOMAIN fn_in.facts : fn_in.facts[i].out = [conf |-> 5 * One]
    /\ \E i \in DOMAIN fn_in.facts : fn_in.facts[i].out = [confidence |-> 9000]

\* the output supplied with the last tool call for t
C15_Supplied(t) ==
    LET elems == payload.tool_calls.elems
        last == CHOOSE i \in DOMAIN elems :
                   elems[i].tool = t /\ \A j \in DOMAIN elems : j > i => elems[j].tool # t
    IN  ToolCallOutput(elems[last])

\* the stored dict holds the supplied field k with its supplied value; the
\* entries of a crops list are compared field by field
C15_FieldKept(stored, supplied, k) ==
    /\ k \in DOMAIN stored
    /\ IF k = "crops"
       THEN /\ Len(stored[k]) = Len(supplied[k])
            /\ \A i \in DOMAIN supplied[k] : \A f \in DOMAIN supplied[k][i] :
                  f \in DOMAIN stored[k][i] /\ stored[k][i][f] = supplied[k][i][f]
       ELSE stored[k] = supplied[k]

\* C15 (as stated): for every tool call of a valid payload (the last one for
\* its tool, the overlay not naming the tool), the value stored in facts
\* under the tool's name holds every field of the supplied output with its
\* supplied value.
C15_NoFieldDropped ==
    (pc \notin {"validate", "build_facts"} /\ ActIntentValid(payload))
    => \A t \in C9_CalledTools \ FactKeys(C9_OverlayOf) :
          \A k \in DOMAIN C15_Supplied(t) \ {"nulls"} :
             C15_FieldKept(FactsGet(facts, t), C15_Supplied(t), k)

\* what does hold: a supplied field is stored with its value when the
\* tool's strict model declares it, and is dropped when it does not.
C15_DeclaredFieldsKept ==
    (pc \notin {"validate", "build_facts"} /\ ActIntentValid(payload))
    => \A t \in C9_CalledTools \ FactKeys(C9_OverlayOf) :
          LET f == ModelFields(ToolOutputModel(t))
          IN  \A k \in DOMAIN C15_Supplied(t) \ {"nulls"} :
                 IF k \in f.scalars \cup f.lists \cup f.dicts
                 THEN C15_FieldKept(FactsGet(facts, t), C15_Supplied(t), k)
                 ELSE k \notin DOMAIN FactsGet(facts, t)

\* the handler is about to be invoked with a prices_fetch fact that came
\* from a tool call supplying a price_history and holds none
C15_Witness ==
    /\ pc = "invoke_handler"
    /\ "prices_fetch" \in C9_CalledTools \ FactKeys(C9_OverlayOf)
    /\ "price_history" \in DOMAIN C15_Supplied("prices_fetch")
    /\ FactsHas(facts, "prices_fetch")
    /\ "price_history" \notin DOMAIN FactsGet(facts, "prices_fetch")
    /\ FactsGet(facts, "prices_fetch").commodity = "wheat"

\* C16 (as stated): no step of a decision computation modifies its inputs:
\* at every point of process_act_intent the caller's payload, its tool-call
\* records included, equals the payload that was passed, and once a handler
\* has returned the facts map holds the values it held when the handler
\* was called.
C16_InputsNotModified ==
    /\ raw_payload = payload
    /\ (pc \in {"merge_provenance", "confidence", "respond"} \/ (pc = "done" /\ handler_result # NoValue))
       => facts = OverlayFacts(build_facts_from_toolcalls(act.tool_calls), act.facts)

\* what does hold of the payload: its keys other than tool_calls and facts
\* are never written; its tool_calls keep their number, their order and
\* their tool names; its facts overlay keeps its keys, and its values
\* unless variety selection reads the calendar as a name-to-crop mapping.
C16_OnlyOutputsAndMappingWritten ==
    /\ DOMAIN raw_payload = DOMAIN payload
    /\ \A k \in DOMAIN payload \ {"tool_calls", "facts"} : raw_payload[k] = payload[k]
    /\ ("tool_calls" \in DOMAIN payload /\ payload.tool_calls.py = "list")
       => /\ raw_payload.tool_calls.py = "list"
          /\ Len(raw_payload.tool_calls.elems) = Len(payload.tool_calls.elems)
          /\ \A i \in DOMAIN payload.tool_calls.elems :
                raw_payload.tool_calls.elems[i].tool = payload.tool_calls.elems[i].tool
    /\ ("facts" \in DOMAIN payload /\ payload # NoValue)
       => /\ Len(raw_payload.facts) = Len(payload.facts)
          /\ \A i \in DOMAIN payload.facts :
                \/ raw_payload.facts[i] = payload.facts[i]
                \/ /\ act.intent = "variety_selection"
                   /\ ReadsCalendarMapping(payload.facts[i].out)

\* variety selection has returned its ranking, and the calendar mapping of
\* the caller's payload holds a crop_name the caller never wrote
C16_Witness ==
    /\ pc = "done" /\ response.status = "complete"
    /\ response.result.action = "variety_ranked_list"
    /\ payload.facts = <<MappingCalendar>>
    /\ raw_payload.facts[1].out.calendar.wheat = [season |-> "rabi", crop_name |-> "wheat"]
    /\ FactsGet(facts, "calendar_lookup") = raw_payload.facts[1].out

(***************************************************************************)
(* utils/helpers.py: build_facts_from_toolcalls called on its own          *)
(***************************************************************************)

\* entries drawn: two weather outlooks and a calendar that parse; a weather
\* outlook whose lat is no number and one whose output is a string (both
\* fail the schema); a tool the schema does not know; an entry that names
\* its tool under "name" and its output under "result"; an entry without a
\* name
FactEntryCatalogue ==
    { [tool |-> "weather_outlook", output |-> [tmin_c |-> <<50>>, source_id |-> "imd"]],
      [tool |-> "weather_outlook", output |-> [tmin_c |-> <<90>>, provider |-> "openmeteo"]],
      [tool |-> "calendar_lookup", output |-> [state |-> "Punjab"]],
      [tool |-> "weather_outlook", output |-> [lat |-> Str("north"), tmin_c |-> <<70>>]],
      [tool |-> "weather_outlook", output |-> Str("unavailable")],
      [tool |-> "soil_moisture_probe", output |-> [soil_moisture_pct |-> 20]],
      [name |-> "weather_outlook", result |-> [tmin_c |-> <<30>>]],
      [output |-> [tmin_c |-> <<10>>]] }

\* longest tool-call list drawn
MaxFactEntries == 3

BuildFactsInit ==
    /\ pc = "build_facts_from_toolcalls"
    /\ fn_in \in UNION { [1 .. n -> FactEntryCatalogue] : n \in 0 .. MaxFactEntries }
    /\ fn_out = NoValue
    /\ OrchIdle

BuildFactsCall ==
    /\ pc = "build_facts_from_toolcalls"
    /\ fn_out' = build_facts_from_toolcalls(fn_in)
    /\ pc' = "done"
    /\ UNCHANGED <<fn_in, orch_vars>>

SpecBuildFacts == BuildFactsInit /\ [][BuildFactsCall]_vars

\* the name the entry at position i carries, and the last position that
\* carries the name t
C17_NameAt(i) == FactOfToolCall(fn_in[i], i - 1).tool
C17_LastWith(t) ==
    CHOOSE i \in DOMAIN fn_in :
        C17_NameAt(i) = t /\ \A j \in DOMAIN fn_in : j > i => C17_NameAt(j) # t

\* C17: for every tool-call list, build_facts_from_toolcalls maps each name
\* an entry carries to the output of the last entry that carries it (its
\* dumped output if that entry parsed strictly, its raw output if it went
\* through the best-effort fallback), and holds no other key.
C17_LastEntryWins ==
    pc = "done"
    => /\ FactKeys(fn_out) = {C17_NameAt(i) : i \in DOMAIN fn_in}
       /\ \A t \in FactKeys(fn_out) :
             LET last == fn_in[C17_LastWith(t)]
             IN  /\ FactsGet(fn_out, t) = FactOfToolCall(last, C17_LastWith(t) - 1).out
                 /\ ToolCallValid(last) =>
                       \A k \in DOMAIN last.output :
                          k \in DOMAIN ParseToolCall(last).output
                             => FactsGet(fn_out, t)[k] = last.output[k]
                 /\ (~ToolCallValid(last) /\ "output" \in DOMAIN last /\ IsDict(last.output))
                       => FactsGet(fn_out, t) = last.output

\* three entries carry the name weather_outlook, the first parsed strictly,
\* the second through the fallback, the third parsed strictly again, with
\* three different outputs, and facts holds the third
C17_Witness ==
    /\ pc = "done" /\ Len(fn_in) = 3
    /\ \A i \in 1 .. 3 : C17_NameAt(i) = "weather_outlook"
    /\ ToolCallValid(fn_in[1]) /\ ~ToolCallValid(fn_in[2]) /\ ToolCallValid(fn_in[3])
    /\ fn_in[1].output.tmin_c # fn_in[3].output.tmin_c
    /\ Len(fn_out) = 1
    /\ FactsGet(fn_out, "weather_outlook").tmin_c = fn_in[3].output.tmin_c

(***************************************************************************)
(* process_act_intent called twice on equal payloads                       *)
(*                                                                         *)
(* fn_in holds what the running invocation takes from outside its payload: *)
(* the uuid4 of line 216 (the payloads drawn carry no trace_id and no      *)
(* request_id), the reading of datetime.now its response is stamped with,  *)
(* and the float lines 396-433 of market_advice.py compute, which is       *)
(* arithmetic on the price statistics and the facts and so one value per   *)
(* payload.  fn_out holds what the first invocation returned.              *)
(***************************************************************************)

\* largest number of tool_calls entries of a payload passed twice
MaxTwiceToolCalls == 1

\* str(uuid.uuid4()) values drawn
TraceIds == {"uuid_1", "uuid_2"}

TwicePayloads ==
    {p \in Payloads :
        ("tool_calls" \in DOMAIN p /\ p.tool_calls.py = "list")
        => Len(p.tool_calls.elems) <= MaxTwiceToolCalls}

\* the response with the fields the orchestrator stamps on it: trace_id,
\* request_id (the payload's, else the trace_id) and decision_timestamp
Stamped(resp, env) ==
    [response |-> resp, trace_id |-> env.trace_id, request_id |-> env.trace_id,
     decision_timestamp |-> env.now]

TwiceInit ==
    /\ pc = "validate"
    /\ payload \in TwicePayloads /\ raw_payload = payload
    /\ act = NoValue /\ facts = <<>> /\ fact_prov = <<>>
    /\ handler_result = NoValue /\ merged_prov = <<>> /\ response = NoValue
    /\ \E conf \in (IF "intent" \in DOMAIN payload /\ payload.intent = Str("market_advice")
                    THEN ConfLevels ELSE {One}) :
          fn_in = [call |-> 1, trace_id |-> "uuid_1", now |-> 1, conf |-> conf]
    /\ fn_out = NoValue

\* the float of the market handler is the one of the payload
MarketFloatOfPayload ==
    (pc = "invoke_handler" /\ act.intent = "market_advice")
    => handler_result' = CanonicalResult(market_handle(act, facts, fn_in.conf))

\* the first invocation has returned; the caller keeps its response and
\* calls again, with a payload equal to the one it passed before, a new
\* uuid4 and a clock that has not gone back
InvokeAgain ==
    /\ pc = "done" /\ fn_in.call = 1
    /\ fn_out' = Stamped(response, fn_in)
    /\ \E t \in TraceIds, later \in 0 .. 1 :
          fn_in' = [fn_in EXCEPT !.call = 2, !.trace_id = t, !.now = fn_in.now + later]
    /\ raw_payload' = payload
    /\ act' = NoValue /\ facts' = <<>> /\ fact_prov' = <<>>
    /\ handler_result' = NoValue /\ merged_prov' = <<>> /\ response' = NoValue
    /\ pc' = "validate"
    /\ UNCHANGED payload

TwiceNext ==
    \/ Validate \/ RejectInvalid \/ BuildFacts \/ ExtractProvenance \/ FindHandler
    \/ HandlerNotFound \/ (InvokeHandler /\ MarketFloatOfPayload) \/ MergeProvenance
    \/ ComputeConfidence \/ Respond \/ InvokeAgain

SpecTwice == TwiceInit /\ [][TwiceNext]_vars

\* result.action, the list of result.items[*].score and the two confidences
\* of a response (a response without a result has none of the first three)
C20_Decision(resp) ==
    IF "result" \in DOMAIN resp
    THEN [status |-> resp.status, action |-> resp.result.action,
          scores |-> [i \in DOMAIN resp.result.items |-> resp.result.items[i].score],
          result_confidence |-> <<resp.result.confidence>>,
          confidence |-> resp.confidence]
    ELSE [status |-> resp.status, action |-> NONE, scores |-> <<>>,
          result_confidence |-> <<>>, confidence |-> resp.confidence]

C21_Signals(r) ==
    [handler_confidence |-> IF Has(r, "handler_confidence") THEN r.handler_confidence ELSE <<>>,
     items_mean_score |-> <<>>, facts_mean_confidence |-> <<>>,
     n_items |-> Len(r.items)]

\* C21 (as stated): in every response of a run in which a handler ran, the
\* final confidence is compute_confidence of the handler's signals, the
\* facts map and the required tools of the intent.
C21_ConfidenceIsComputeConfidence ==
    (pc = "done" /\ response.status = "complete")
    => response.confidence
          = compute_confidence(C21_Signals(handler_result), facts,
                               INTENT_ROUTING[act.intent])

\* what does hold: a handler_confidence the handler supplied is the final
\* confidence once clamped to [0, 1], whatever the facts and the required
\* tools are; without one the final confidence is compute_confidence of the
\* result alone, with no facts and no required tools.
C21_HandlerConfidenceCopied ==
    (pc = "done" /\ response.status = "complete")
    => response.confidence
          = IF Has(handler_result, "handler_confidence")
            THEN Max(0, Min(One, handler_result.handler_confidence[1]))
            ELSE compute_confidence([C21_Signals(handler_result)
                                        EXCEPT !.handler_confidence = <<>>], <<>>, <<>>)

\* a handler ran without one of the intent's required tools in facts, it
\* supplied a handler_confidence above zero, and the response carries that
\* value unchanged
C21_Witness ==
    /\ pc = "done" /\ response.status = "complete"
    /\ \E i \in DOMAIN INTENT_ROUTING[act.intent] :
          ~FactsHas(facts, INTENT_ROUTING[act.intent][i])
    /\ Has(handler_result, "handler_confidence")
    /\ handler_result.handler_confidence[1] > 0
    /\ response.confidence = handler_result.handler_confidence[1]

\* the handler returned the require_more_info outcome
C22_RequireMoreInfo ==
    /\ pc = "done" /\ response.status = "complete"
    /\ GetStr(handler_result, "action") = "require_more_info"
    /\ handler_result.items = <<>>
    /\ ~Has(handler_result, "handler_confidence")

\* C22 (as stated): whenever the handler returns the require_more_info
\* outcome (no items, confidence 0.0), the response has result.items = [],
\* result.confidence = 0.0 and a top-level confidence of 0.0.
C22_RequireMoreInfoIsZeroConfidence ==
    C22_RequireMoreInfo
    => /\ response.result.items = <<>>
       /\ response.result.confidence = 0
       /\ response.confidence = 0

\* what does hold: the response passes the action and the empty item list
\* on, and both confidences are the neutral 0.5 of compute_confidence's last
\* fallback, the handler's own 0.0 being overwritten.
C22_RequireMoreInfoIsNeutralConfidence ==
    C22_RequireMoreInfo
    => /\ response.result.action = "require_more_info"
       /\ response.result.items = <<>>
       /\ response.result.confidence = One \div 2
       /\ response.confidence = One \div 2

\* a handler asked for more information, naming what is missing, and the
\* response is out with a confidence above zero
C22_Witness ==
    /\ C22_RequireMoreInfo
    /\ handler_result.missing # <<>>
    /\ response.confidence > 0

(***************************************************************************)
(* compute_confidence: the missing-tool branch                             *)
(***************************************************************************)

\* the required tools absent from facts, by position in required_tools
C23_Missing == {i \in DOMAIN fn_in.required_tools :
                   ~FactsHas(fn_in.facts, fn_in.required_tools[i])}

\* base * (1 - miss_frac), with base the items_mean_score if present, else
\* the handler_confidence if present, else 0.5
C23_Penalized ==
    LET base == IF fn_in.signals.items_mean_score # <<>>
                THEN fn_in.signals.items_mean_score[1]
                ELSE IF fn_in.signals.handler_confidence # <<>>
                THEN fn_in.signals.handler_confidence[1]
                ELSE One \div 2
        n == Len(fn_in.required_tools)
    IN  RoundDiv(base * (n - Cardinality(C23_Missing)), n)

\* C23 (as stated): when a required tool is absent from facts,
\* compute_confidence returns max(0, base * (1 - miss_frac)).
C23_PenaltyFloorOnly ==
    (pc = "done" /\ fn_in.required_tools # <<>> /\ C23_Missing # {})
    => fn_out = Max(0, C23_Penalized)

\* C23: when at least one tool of a non-empty required_tools list is absent
\* from facts, compute_confidence returns base * (1 - miss_frac) clamped to
\* [0, 1] (floor 0 and ceiling 1), with miss_frac the fraction of required
\* tools that are missing and base the items_mean_score if present, else
\* the handler_confidence if present, else 0.5; the result is 0 when every
\* required tool is missing.
C23_PenaltyClamped ==
    (pc = "done" /\ fn_in.required_tools # <<>> /\ C23_Missing # {})
    => /\ fn_out = Max(0, Min(One, C23_Penalized))
       /\ C23_Missing = DOMAIN fn_in.required_tools => fn_out = 0

\* one of two required tools is missing, both weak signals are present and
\* differ, and the result is half the items_mean_score
C23_Witness ==
    /\ pc = "done" /\ Len(fn_in.required_tools) = 2 /\ Cardinality(C23_Missing) = 1
    /\ fn_in.signals.items_mean_score = <<6000>>
    /\ fn_in.signals.handler_confidence = <<7500>>
    /\ fn_out = 3000

(***************************************************************************)
(* extract_provenance_from_facts: the top-level entry of a fact            *)
(***************************************************************************)

\* the entries extracted under the name of the fact at position i
C24_EntriesOf(i) ==
    SelectSeq(fact_prov, LAMBDA e : e.tool = facts[i].tool)

\* C24 (as stated): for every mapping-valued fact, the provenance entry
\* extracted for it has its source_id from source_id or else source, and its
\* source_type from source_type or else provider.
C24_TypeFromSourceTypeOrProvider ==
    pc = "find_handler"
    => \A i \in DOMAIN facts :
          IsDict(facts[i].out)
          => /\ Len(C24_EntriesOf(i)) = 1
             /\ C24_EntriesOf(i)[1].source_id
                   = StrOr(GetStr(facts[i].out, "source_id"), GetStr(facts[i].out, "source"))
             /\ C24_EntriesOf(i)[1].source_type
                   = StrOr(GetStr(facts[i].out, "source_type"),
                           GetStr(facts[i].out, "provider"))

\* what does hold: source_id is as stated, and source_type is the fact's
\* source_type field or else None: a provider field is never read.
C24_TypeFromSourceTypeOnly ==
    pc = "find_handler"
    => \A i \in DOMAIN facts :
          IsDict(facts[i].out)
          => /\ Len(C24_EntriesOf(i)) = 1
             /\ C24_EntriesOf(i)[1].source_id
                   = StrOr(GetStr(facts[i].out, "source_id"), GetStr(facts[i].out, "source"))
             /\ C24_EntriesOf(i)[1].source_type = GetStr(facts[i].out, "source_type")

\* provenance was extracted from a fact that has a provider, a source and
\* no source_type: its entry has the source as source_id and no source_type
C24_Witness ==
    /\ pc = "find_handler"
    /\ \E i \in DOMAIN facts :
          /\ Has(facts[i].out, "provider") /\ ~Has(facts[i].out, "source_type")
          /\ C24_EntriesOf(i) = <<ProvEntry(facts[i].out.source, NONE, facts[i].tool)>>

(***************************************************************************)
(* rules/irrigation_decision.py: handle called on its own                  *)
(***************************************************************************)

\* weather_outlook outputs drawn: the forecasts of the overlays (2 mm and
\* 12 mm in the first two days, with and without a confidence), one of
\* exactly 10 mm in two days with a wet third day, one of 9 mm with a wet
\* third day, one of 3 mm that states no confidence, and an output without a
\* forecast
IrrigationWeathers ==
    { DryForecast.out, RainyForecast.out, ProviderForecast.out,
      [forecast |-> << [date |-> 1, rain_mm |-> 4], [date |-> 2, rain_mm |-> 6],
                       [date |-> 3, rain_mm |-> 50] >>, source_id |-> "imd"],
      [forecast |-> << [date |-> 1, rain_mm |-> 9], [date |-> 2],
                       [date |-> 3, rain_mm |-> 50] >>, confidence |-> 2 * One],
      [forecast |-> << [date |-> 1, rain_mm |-> 3] >>],
      [source_id |-> "imd"] }

\* calendar_lookup outputs drawn: one whose current stage is critical, one
\* without stages, one whose current stage is not critical and has a
\* moisture threshold of its own, one that is a list
IrrigationCalendars ==
    { CropCalendar.out, BareCalendar.out,
      [current_stage |-> "vegetative", critical_stages |-> [flowering |-> "high"],
       stage_moisture_thresholds |-> [vegetative |-> 40], confidence |-> 8000],
      ListCalendar.out }

\* soil facts drawn: none, a sample without a moisture reading, and
\* readings below zero, zero, below both thresholds, between them, at the
\* default threshold, above both
IrrigationSoils ==
    { <<>>, << [tool |-> "soil", out |-> [ph |-> 7]] >> }
    \cup { << [tool |-> "soil", out |-> [soil_moisture_pct |-> m]] >> :
              m \in {0 - 5, 0, 10, 20, 30, 35, 45} }

IrrigationInit ==
    /\ pc = "irrigation_handle"
    /\ fn_in \in [intent : {HandlerIntent("irrigation_decision", stage) :
                               stage \in {NONE, "flowering", "tillering"}},
                  weather : IrrigationWeathers, calendar : IrrigationCalendars,
                  soil : IrrigationSoils]
    /\ fn_out = NoValue
    /\ OrchIdle

\* the facts map of the call: weather_outlook, calendar_lookup, then the
\* soil fact if there is one
IrrigationFacts ==
    << [tool |-> "weather_outlook", out |-> fn_in.weather],
       [tool |-> "calendar_lookup", out |-> fn_in.calendar] >> \o fn_in.soil

IrrigationHandleCall ==
    /\ pc = "irrigation_handle"
    /\ fn_out' = irrigation_handle(fn_in.intent, IrrigationFacts)
    /\ pc' = "done"
    /\ UNCHANGED <<fn_in, orch_vars>>

SpecIrrigation == IrrigationInit /\ [][IrrigationHandleCall]_vars

\* the handler returned a decision: neither require_more_info nor an
\* exception
IrrigationDecided ==
    pc = "done" /\ IsDict(fn_out) /\ fn_out.action = "irrigation_now_or_wait"

\* the rain the forecast gives for the next 48 hours, None as <<>>
IrrigationRain48 == sum_forecast_rain_mm(fn_in.weather)

\* C25 (as stated): every decision result of the irrigation handler has
\* exactly one item whose meta carries the recommendation, and whenever the
\* rain forecast for the next 48 hours is at least 10 mm the decision is
\* wait_for_rain with confidence 0.9.
C25_OneItemWithRecommendation ==
    IrrigationDecided
    => /\ Len(fn_out.items) = 1
       /\ "recommendation" \in DOMAIN fn_out.items[1].meta
       /\ (IrrigationRain48 # <<>> /\ IrrigationRain48[1] >= RAIN_THRESHOLD_MM)
             => /\ fn_out.notes = NotesRainExpected
                /\ fn_out.confidence = <<9000>>

\* what does hold: a decision result has exactly one item, named
\* irrigation_decision, whose meta holds the forecast rain, the soil
\* moisture and the crop stage and no recommendation (wait or irrigate shows
\* in the notes only); with at least 10 mm of rain the handler decides to
\* wait, whatever the soil and the stage, with confidence 0.5.
C25_OneItemWithoutRecommendation ==
    /\ IrrigationDecided
       => /\ Len(fn_out.items) = 1
          /\ fn_out.items[1].name = "irrigation_decision"
          /\ DOMAIN fn_out.items[1].meta
                \subseteq {"forecast_rain_48h_mm", "soil_moisture_pct", "crop_stage"}
    /\ (pc = "done" /\ IrrigationRain48 # <<>> /\ IrrigationRain48[1] >= RAIN_THRESHOLD_MM)
       => /\ IrrigationDecided
          /\ fn_out.notes = NotesRainExpected
          /\ fn_out.confidence = <<One \div 2>>
          /\ fn_out.items[1].score = <<One \div 2>>

\* exactly 10 mm of rain are forecast for the next two days, the soil is
\* dry and the stage critical, and the handler has decided to wait
C25_Witness ==
    /\ IrrigationDecided
    /\ IrrigationRain48 = <<RAIN_THRESHOLD_MM>>
    /\ fn_in.soil # <<>> /\ extract_soil_moisture(fn_in.soil[1].out) = <<10>>
    /\ fn_in.intent.crop_stage = "flowering"
    /\ fn_out.notes = NotesRainExpected
    /\ Len(fn_out.items) = 1

\* the soil moisture the handler extracts and the threshold of the stage it
\* resolves, for a call that reaches the comparison of the two
IrrigationMoisture == extract_soil_moisture(FactsGet(fn_in.soil, "soil"))
IrrigationThreshold ==
    determine_stage_threshold(fn_in.calendar,
                              StrOr(fn_in.intent.crop_stage,
                                    GetStr(fn_in.calendar, "current_stage")))

\* less than 10 mm of rain are forecast, a soil moisture was read, and the
\* handler returned
C26_SoilCompared ==
    /\ pc = "done" /\ IsDict(fn_out)
    /\ IrrigationRain48 # <<>> /\ IrrigationRain48[1] < RAIN_THRESHOLD_MM
    /\ IrrigationMoisture # <<>>

\* C26 (as stated): with less than 10 mm of forecast rain and a soil
\* moisture m below the stage threshold t, the returned confidence is
\* 0.6 + 0.35 * (t - m) / t (0.95 when m <= 0), inside [0.6, 0.95]; with
\* m >= t the decision is to wait, with confidence 0.7.
C26_ConfidenceScalesWithDryness ==
    C26_SoilCompared
    => LET m == IrrigationMoisture[1]
           t == IrrigationThreshold
       IN  IF m < t
           THEN /\ fn_out.notes = NotesSoilDry
                /\ fn_out.confidence
                      = <<IF m <= 0 THEN 9500 ELSE 6000 + RoundDiv(3500 * (t - m), t)>>
                /\ 6000 <= fn_out.confidence[1] /\ fn_out.confidence[1] <= 9500
           ELSE /\ fn_out.notes = NotesSoilSufficient
                /\ fn_out.confidence = <<7000>>

\* what does hold: the decision is to irrigate when m < t and to wait when
\* m >= t, and in both cases the confidence is what compute_confidence
\* returns for a signals dict without canonical signals: the mean of the
\* confidence fields of the facts, 0.5 if there is none; it does not depend
\* on m or t.
C26_ConfidenceIgnoresDryness ==
    C26_SoilCompared
    => LET tool_confs == ToolConfs(IrrigationFacts)
       IN  /\ fn_out.notes = IF IrrigationMoisture[1] < IrrigationThreshold
                             THEN NotesSoilDry ELSE NotesSoilSufficient
           /\ fn_out.confidence
                 = <<IF tool_confs = <<>> THEN One \div 2
                     ELSE RoundDiv(SumSeq(tool_confs), Len(tool_confs))>>
           /\ fn_out.items[1].score = fn_out.confidence

\* 9 mm of rain are forecast, the soil moisture is 10 against a threshold
\* of 30, and the handler decided to irrigate with a confidence of 2.0, the
\* confidence field of the forecast
C26_Witness ==
    /\ C26_SoilCompared
    /\ IrrigationRain48 = <<9>>
    /\ IrrigationMoisture = <<10>> /\ IrrigationThreshold = 30
    /\ fn_out.notes = NotesSoilDry
    /\ fn_out.confidence = <<2 * One>>

\* the crop stage the handler resolves, and whether the calendar lists it
\* among its critical stages
IrrigationStage ==
    StrOr(fn_in.intent.crop_stage, GetStr(fn_in.calendar, "current_stage"))
IrrigationStageCritical ==
    /\ StrTruthy(IrrigationStage) /\ Has(fn_in.calendar, "critical_stages")
    /\ IrrigationStage \in DOMAIN fn_in.calendar.critical_stages

\* the names of the missing list, for what is not available
C27_Unavailable ==
    (IF IrrigationMoisture = <<>> THEN <<"soil or soil_moisture">> ELSE <<>>)
    \o (IF ~StrTruthy(IrrigationStage)
        THEN <<"crop_stage (current_stage or days_after_sowing)">> ELSE <<>>)
    \o (IF IrrigationRain48 = <<>>
        THEN <<"forecast rainfall (weather_outlook.forecast)">> ELSE <<>>)

\* C27 (as stated): with weather_outlook and calendar_lookup present, the
\* handler returns require_more_info only if none of soil moisture, crop
\* stage and forecast rain is available, its missing list then naming the
\* unavailable ones; with a forecast and a known, non-critical stage the
\* result is a decision to wait.
C27_AsksOnlyWhenNothingIsKnown ==
    (pc = "done" /\ IsDict(fn_out))
    => /\ fn_out.action = "require_more_info"
          => /\ IrrigationMoisture = <<>> /\ ~StrTruthy(IrrigationStage)
             /\ IrrigationRain48 = <<>>
             /\ fn_out.missing = C27_Unavailable
       /\ (IrrigationRain48 # <<>> /\ StrTruthy(IrrigationStage) /\ ~IrrigationStageCritical)
          => /\ fn_out.action = "irrigation_now_or_wait"
             /\ fn_out.notes \in {NotesRainExpected, NotesSoilSufficient}

\* what does hold: the handler asks for more information exactly when less
\* than 10 mm of rain (or no rain figure) is forecast, no soil moisture was
\* read and the stage is not a critical one, a known stage and a present
\* forecast notwithstanding; its missing list names the soil only when no
\* soil fact was given at all, the stage when unknown, the forecast when
\* absent.
C27_AsksWithoutMoistureOrCriticalStage ==
    (pc = "done" /\ IsDict(fn_out))
    => /\ fn_out.action = "require_more_info"
          <=> /\ ~(IrrigationRain48 # <<>> /\ IrrigationRain48[1] >= RAIN_THRESHOLD_MM)
              /\ IrrigationMoisture = <<>>
              /\ ~IrrigationStageCritical
       /\ fn_out.action = "require_more_info"
          => fn_out.missing
                = (IF fn_in.soil = <<>> THEN <<"soil or soil_moisture">> ELSE <<>>)
                  \o SelectSeq(C27_Unavailable, LAMBDA x : x # "soil or soil_moisture")

\* a forecast of 3 mm is present, the stage is known and is not a critical
\* one, no soil fact was given, and the handler asked for more information,
\* naming the soil
C27_Witness ==
    /\ pc = "done" /\ IsDict(fn_out)
    /\ IrrigationRain48 = <<3>>
    /\ IrrigationStage = "tillering" /\ ~IrrigationStageCritical
    /\ fn_in.soil = <<>>
    /\ fn_out.action = "require_more_info"
    /\ fn_out.missing = <<"soil or soil_moisture">>

(***************************************************************************)
(* rules/temperature_risk.py: _get_stage_thresholds called on its own      *)
(***************************************************************************)

\* a dict of thresholds from two optional numbers (tenths of a degree)
ThresholdDict(frost, heat) ==
    IF frost # <<>> /\ heat # <<>>
    THEN [frost_threshold |-> frost[1], heat_threshold |-> heat[1]]
    ELSE IF frost # <<>> THEN [frost_threshold |-> frost[1]]
    ELSE IF heat # <<>> THEN [heat_threshold |-> heat[1]]
    ELSE [nulls |-> {}]

\* thresholds drawn: none, 0.0 degrees, and values on either side of the
\* defaults
FrostThresholds == {<<>>, <<0>>, <<0 - 20>>, <<50>>}
HeatThresholds == {<<>>, <<0>>, <<350>>}

\* calendars drawn: top-level thresholds or none, with or without a
\* critical_temps table that has an entry for the flowering stage
ThresholdCalendars ==
    LET tops == {ThresholdDict(f, h) : f \in {<<>>, <<30>>}, h \in {<<>>, <<400>>}}
        entries == {ThresholdDict(f, h) : f \in FrostThresholds, h \in HeatThresholds}
        WithTable(top, entry) ==
            [k \in DOMAIN top \cup {"critical_temps"} |->
                IF k = "critical_temps" THEN [flowering |-> entry] ELSE top[k]]
    IN  tops \cup {WithTable(top, entry) : top \in tops, entry \in entries}

ThresholdsInit ==
    /\ pc = "get_stage_thresholds"
    /\ fn_in \in [calendar : ThresholdCalendars, stage : {NONE, "flowering", "tillering"}]
    /\ fn_out = NoValue
    /\ OrchIdle

StageThresholdsCall ==
    /\ pc = "get_stage_thresholds"
    /\ fn_out' = get_stage_thresholds(fn_in.calendar, fn_in.stage)
    /\ pc' = "done"
    /\ UNCHANGED <<fn_in, orch_vars>>

SpecThresholds == ThresholdsInit /\ [][StageThresholdsCall]_vars

\* what the calendar's table declares for the stage, an empty dict if
\* nothing
C28_StageEntry ==
    IF /\ StrTruthy(fn_in.stage) /\ Has(fn_in.calendar, "critical_temps")
       /\ fn_in.stage \in DOMAIN fn_in.calendar.critical_temps
    THEN fn_in.calendar.critical_temps[fn_in.stage]
    ELSE [nulls |-> {}]

\* the threshold under key k resolved in the stated order; zero_counts
\* says whether a stage value of 0 counts as declared
C28_Resolved(k, default, zero_counts) ==
    IF Has(C28_StageEntry, k) /\ (zero_counts \/ C28_StageEntry[k] # 0)
    THEN C28_StageEntry[k]
    ELSE IF Has(fn_in.calendar, k) THEN fn_in.calendar[k]
    ELSE default

\* C28 (as stated): each of the frost and heat thresholds is the value the
\* calendar's per-stage table declares for the current stage if it declares
\* one (any number, 0 included), else the calendar's top-level threshold,
\* else the default.
C28_StageValueAlwaysWins ==
    pc = "done"
    => /\ fn_out.frost_threshold
             = C28_Resolved("frost_threshold", DEFAULT_FROST_THRESHOLD_C, TRUE)
       /\ fn_out.heat_threshold
             = C28_Resolved("heat_threshold", DEFAULT_HEAT_THRESHOLD_C, TRUE)

\* what does hold: the stated order with a stage value of 0 treated as not
\* declared; every other stage value wins over the top level and the
\* default.
C28_StageValueWinsUnlessZero ==
    pc = "done"
    => /\ fn_out.frost_threshold
             = C28_Resolved("frost_threshold", DEFAULT_FROST_THRESHOLD_C, FALSE)
       /\ fn_out.heat_threshold
             = C28_Resolved("heat_threshold", DEFAULT_HEAT_THRESHOLD_C, FALSE)

\* the table declares a frost threshold of 0.0 for the current stage, the
\* calendar a top-level one of 3.0, and the handler resolved 3.0
C28_Witness ==
    /\ pc = "done" /\ fn_in.stage = "flowering"
    /\ Has(C28_StageEntry, "frost_threshold") /\ C28_StageEntry.frost_threshold = 0
    /\ Has(fn_in.calendar, "frost_threshold")
    /\ fn_out.frost_threshold = 30


\* ---- the basic recommendation of market_advice for a short price history ----

\* largest number of price_history records drawn for the short history
MaxBasicPricePoints == 3

\* storage outputs drawn: none; without facilities; an active facility; a
\* closed one and one written "Active"; none active; an empty list; under the
\* legacy key "storage" and nested under data; an empty nested list beside an
\* active top-level one; a facility whose status is None; not a dict
BasicStorage ==
    { <<>>,
      << [tool |-> "storage_find", out |-> [cost_per_month |-> 1]] >>,
      << [tool |-> "storage_find", out |-> [facilities |-> << [status |-> "active"] >>]] >>,
      << [tool |-> "storage_find",
          out |-> [facilities |-> << [status |-> "closed"], [status |-> "Active"] >>]] >>,
      << [tool |-> "storage_find",
          out |-> [facilities |-> << [status |-> "closed"], [name |-> "godown"] >>]] >>,
      << [tool |-> "storage_find", out |-> [facilities |-> <<>>]] >>,
      << [tool |-> "storage",
          out |-> [data |-> [facilities |-> << [status |-> "ACTIVE"] >>]]] >>,
      << [tool |-> "storage_find",
          out |-> [data |-> [facilities |-> <<>>],
                   facilities |-> << [status |-> "active"] >>]] >>,
      << [tool |-> "storage_find",
          out |-> [facilities |-> << [name |-> "godown", nulls |-> {"status"}] >>]] >>,
      << [tool |-> "storage_find", out |-> [py |-> "list", elems |-> <<"godown">>]] >> }

BasicMarketInit ==
    /\ pc = "market_handle"
    /\ fn_in \in { MarketInput(ps, order, storage, <<>>) :
                     ps \in UNION { [1 .. n -> MarketPrices] : n \in 0 .. MaxBasicPricePoints },
                     order \in DateOrders, storage \in BasicStorage }
    /\ fn_out = NoValue
    /\ OrchIdle

SpecBasicMarket == BasicMarketInit /\ [][MarketHandleCall]_vars

\* the storage output of the input, under either key; NONE without one
C29_StorageOut == FactsGetOr(fn_in.facts, "storage_find", "storage")

\* the statuses of the facilities listed in the storage output
C29_Statuses ==
    IF ~IsDict(C29_StorageOut) THEN {}
    ELSE LET fs == StorageFacilities(C29_StorageOut)
         IN  { GetStr(fs[i], "status") : i \in { j \in DOMAIN fs : Has(fs[j], "status") } }

\* every listed facility is a dict whose status, if it has one, is a string
C29_WellFormed ==
    \/ ~IsDict(C29_StorageOut)
    \/ \A i \in DOMAIN StorageFacilities(C29_StorageOut) :
         LET f == StorageFacilities(C29_StorageOut)[i]
         IN  HasKey(f, "status") => Has(f, "status")

MaxVarieties == 4

\* varieties drawn: one with a maturity, a market preference and a drought
\* tolerance of 0; one with a heat tolerance of 0 and a market preference;
\* one with both tolerances, a pest resistance and a pH range; one with
\* nothing but its name
VarietyPool ==
    { [name |-> "hd_2967", maturity_days |-> 110, market_preference_score |-> 8000,
       drought_tolerance |-> 0],
      [name |-> "heat_shy", heat_tolerance |-> 0, market_preference_score |-> 6000],
      [name |-> "hardy", heat_tolerance |-> 5000, drought_tolerance |-> One,
       pest_resistance |-> [aphid |-> 8000], ph_range |-> <<60, 75>>],
      [name |-> "local"] }

\* weather outputs drawn: none; arrays of a hot and dry spell; a forecast of
\* one day at 40 degrees; a forecast of rain only
VarietyWeathers ==
    { <<>>,
      << [tool |-> "weather_outlook",
          out |-> [tmax_c |-> <<370, 370>>, tmin_c |-> <<250, 250>>, rain_mm |-> <<20, 0>>]] >>,
      << [tool |-> "weather_outlook",
          out |-> [forecast |-> << [date |-> 1, t_max |-> 400, rain_mm |-> 0] >>]] >>,
      << [tool |-> "weather_outlook",
          out |-> [forecast |-> << [date |-> 1, rain_mm |-> 12] >>]] >> }

\* calendars with and without a typical maturity
VarietyCalendars ==
    { [typical_maturity_days |-> 120], [state |-> "Punjab"] }

\* rag outputs: none, and one reporting a pest the hardy variety declares a
\* resistance to and one nobody does
VarietyRags ==
    { <<>>, << [tool |-> "rag_search", out |-> [pests |-> <<"aphid", "borer">>]] >> }

\* soil outputs: none, a pH of 6.5 and a pH of 8.0
VarietySoils ==
    { <<>>, << [tool |-> "soil", out |-> [pH |-> 65]] >>,
      << [tool |-> "soil", out |-> [pH |-> 80]] >> }

\* intents, as dicts: without top_n and with a top_n of 2
VarietyIntents ==
    { [intent |-> "variety_selection"], [intent |-> "variety_selection", top_n |-> 2] }

VarietyInit ==
    /\ pc = "variety_handle"
    /\ fn_in \in [intent : VarietyIntents,
                  varieties : UNION { [1 .. n -> VarietyPool] : n \in 1 .. MaxVarieties },
                  calendar : VarietyCalendars, weather : VarietyWeathers,
                  rag : VarietyRags, soil : VarietySoils]
    /\ fn_out = NoValue
    /\ OrchIdle

\* the facts map of the call
VarietyFacts ==
    << [tool |-> "variety_lookup", out |-> [varieties |-> fn_in.varieties]],
       [tool |-> "calendar_lookup", out |-> fn_in.calendar] >>
    \o fn_in.weather \o fn_in.rag \o fn_in.soil

VarietyHandleCall ==
    /\ pc = "variety_handle"
    /\ fn_out' = variety_handle(fn_in.intent, VarietyFacts)
    /\ pc' = "done"
    /\ UNCHANGED <<fn_in, orch_vars>>

SpecVariety == VarietyInit /\ [][VarietyHandleCall]_vars

\* the heat tolerance a variety declares: the first of the three keys whose
\* value is a number, 0 included
C30_DeclaredHeatTolerance(v) ==
    IF Has(v, "heat_tolerance") THEN <<v.heat_tolerance>>
    ELSE IF Has(v, "heat_tolerance_score") THEN <<v.heat_tolerance_score>>
    ELSE GetNum(v, "heat_tolerance_index")

\* name and score of every variety of the input; zero_counts says whether a
\* declared heat tolerance of 0 counts as data
C30_Expected(zero_counts) ==
    LET weather == IF fn_in.weather = <<>> THEN <<>>
                   ELSE compute_climate_signal(fn_in.weather[1].out)
        rag == IF fn_in.rag = <<>> THEN NoValue ELSE fn_in.rag[1].out
        soil == IF fn_in.soil = <<>> THEN NoValue ELSE fn_in.soil[1].out
        HeatTol(v) == IF zero_counts THEN C30_DeclaredHeatTolerance(v)
                      ELSE NumOr(C30_DeclaredHeatTolerance(v), <<>>)
    IN  [i \in DOMAIN fn_in.varieties |->
            LET v == fn_in.varieties[i]
            IN  [name |-> v.name,
                 score |-> final_score_of(
                               gather_scores(v, HeatTol(v), GetNum(fn_in.calendar, "typical_maturity_days"),
                                             weather, rag, soil))]]

\* name and score of the items returned
C30_Returned == [i \in DOMAIN fn_out.items |->
                    [name |-> fn_out.items[i].name, score |-> fn_out.items[i].score[1]]]

\* how often x occurs in the sequence s
C30_Count(s, x) == Cardinality({i \in DOMAIN s : s[i] = x})

\* out is the top n of all in descending score order: n of them or all,
\* scores never rising, every one taken from all, and nothing left out
\* that scores higher than the last one returned
C30_TopN(out, all, n) ==
    /\ Len(out) = Min(n, Len(all))
    /\ \A i \in 1 .. Len(out) - 1 : out[i].score >= out[i + 1].score
    /\ \A x \in Range(out) : C30_Count(out, x) <= C30_Count(all, x)
    /\ \A x \in Range(all) :
         (Len(out) > 0 /\ C30_Count(all, x) > C30_Count(out, x)) => x.score <= out[Len(out)].score

C30_Ranked == pc = "done" /\ IsDict(fn_out) /\ fn_out.action = "variety_ranked_list"

\* C30: every variety's score is the arithmetic mean of exactly those of its
\* sub-scores (maturity closeness, climate match, pest resistance, market
\* preference, soil pH match) that are computable from the data, a criterion
\* without data adding neither a zero nor a term, and the items returned are
\* the top N (3 unless the intent gives a top_n) in descending score order
C30_ScoreIsMeanOfComputableSubScores ==
    C30_Ranked => C30_TopN(C30_Returned, C30_Expected(TRUE), top_n_of(fn_in.intent))

\* what holds: the same, with a declared heat tolerance of 0 treated as if
\* the variety declared none
C30_ScoreIsMeanUnlessHeatToleranceZero ==
    /\ pc = "done" => C30_Ranked
    /\ C30_Ranked => C30_TopN(C30_Returned, C30_Expected(FALSE), top_n_of(fn_in.intent))

\* a single variety with a market preference of 0.6 and a heat tolerance of
\* 0 under a forecast of 40 degrees has been scored 0.6: the climate match
\* of 0.0 is not in the mean
C30_Witness ==
    /\ C30_Ranked
    /\ Len(fn_in.varieties) = 1 /\ fn_in.varieties[1].name = "heat_shy"
    /\ fn_in.weather # <<>> /\ Has(fn_in.weather[1].out, "forecast")
    /\ compute_climate_signal(fn_in.weather[1].out) = << [hotness |-> One, dryness |-> 0] >>
    /\ C30_Expected(TRUE)[1].score = 3000
    /\ fn_out.items[1].score = <<6000>>

====
